---- MODULE Spec2Model ----
(***************************************************************************)
(* Airport safety-inspection dashboard (bandinuguri/gather).               *)
(*                                                                         *)
(* The model covers the persistence layer (IndexedDB record store, legacy  *)
(* store and migration), the summary projection, the month/airport lookup  *)
(* and the tally, and the App component's mutating handlers.               *)
(*                                                                         *)
(* Conventions                                                             *)
(*  - A JavaScript object is a function from its own property names to     *)
(*    values; a missing property is a name outside the DOMAIN.  The value  *)
(*    `undefined` stored under a property is the string Undefined.         *)
(*  - Korean literals of the source are written in ASCII:                  *)
(*      statuses  yangho -> "good", gyeongmi -> "minor", miheup -> "poor", *)
(*                simgak -> "critical", haedang-eopseum -> "na";           *)
(*      airports  Incheon, Gimpo, Gimhae, Jeju, ...                        *)
(*  - An instant (Date.getTime()) is an integer number of ticks.  A month  *)
(*    has TicksPerMonth ticks; the local timezone is tz ticks ahead of     *)
(*    UTC.  An ISO date string is the record [y, m, d] of its UTC fields.  *)
(*  - A report id is a double.  Near Date.now() a double carries only a    *)
(*    fixed number of fractional bits, so ids are multiples of 1/IdRes of  *)
(*    a millisecond and are held here as the integer id * IdRes.           *)
(*  - An async handler is a job: it runs from one await to the next in    *)
(*    one step.  The effect of an IndexedDB request on the stores takes    *)
(*    place when the request is issued (requests are served in order); the *)
(*    handler goes on in a later step.  Whether a request or a file-system *)
(*    call succeeds is chosen by the environment.                          *)
(***************************************************************************)
EXTENDS Integers, Sequences, FiniteSets, TLC

VARIABLES
    input,      \* argument handed to the pure function under test
    output,     \* its result; in SpecDB the record of the last db call
    pc,         \* position of the driver of a function-level specification
    live,       \* history: ids put and not deleted since (SpecDB)
    calls,      \* history: number of db calls made so far (SpecDB)
    \* the environment
    now,        \* Date.now(), in milliseconds
    tz,         \* local time minus UTC, in ticks (fixed while the app runs)
    electronAPI,    \* window.require is present (Electron), else web mode
    \* persistent state
    v2,         \* IndexedDB object store reports_v2: id -> full report
    legacy,     \* IndexedDB object store reportsStore, key admin_reports
    localAdmin, \* localStorage holds the key admin_reports
    fsFile,     \* Documents/AirportSafetyManager/reports.json (Electron)
    \* App component state
    selectedYear,   \* new Date().getFullYear() at mount
    selectedMonth,  \* new Date().getMonth() + 1 at mount
    reports,        \* the in-memory list
    isDbLoaded,
    uploadStatus,
    alertMsg,       \* the last alert() shown
    targetAirportForUpload,
    saveTimer,      \* the debounce timer of the save effect is pending
    \* async handlers in flight: each is idle or waits at one of its awaits
    initJob, folderJob, singleJob, deleteJob, resetJob,
    \* export
    exportJob,      \* the export requested: null or { type, format, data? }
    isGenerating,
    exportRun,      \* processExport in flight: idle or at one of its awaits
    pdfRequest,     \* handleRequestPdfReport awaiting fetchFullReport
    exports,        \* history: number of export requests so far
    \* history
    merged,     \* number and content of the last upload merged since the page loaded
    ops,        \* number of handler invocations and page reloads so far
    restarts,   \* number of page reloads so far
    faults      \* number of storage and file-system failures so far

pureVars == <<input, output, pc>>
histDbVars == <<live, calls>>
envVars == <<tz, electronAPI, selectedYear, selectedMonth>>
storeVars == <<v2, legacy, localAdmin, fsFile>>
uiVars == <<reports, isDbLoaded, uploadStatus, alertMsg, targetAirportForUpload,
            saveTimer>>
jobVars == <<initJob, folderJob, singleJob, deleteJob, resetJob>>
histVars == <<merged, ops, restarts, faults>>
exportVars == <<exportJob, isGenerating, exportRun, pdfRequest, exports>>

\* Everything of the App component (left alone by SpecDB, SpecMig, ...)
appVars == <<tz, electronAPI, selectedYear, selectedMonth, localAdmin, fsFile,
             reports, isDbLoaded, uploadStatus, alertMsg, targetAirportForUpload,
             saveTimer, initJob, folderJob, singleJob, deleteJob, resetJob,
             merged, ops, restarts, faults, exportVars>>

vars == <<input, output, pc, live, calls, now, v2, legacy, appVars>>

-----------------------------------------------------------------------------
(* Bounds *)

MaxItems == 2          \* items per report in the projection inputs
MaxStatusItems == 4    \* items per sequence in the tally inputs
MaxLegacy == 2         \* reports in the legacy blob
MaxCalls == 3          \* db calls per behaviour of SpecDB
IdRes == 1             \* representable ids per millisecond near Date.now()
TicksPerMonth == 2     \* instants told apart within one month
MaxReports == 2        \* reports in the lookup inputs
MaxOps == 2            \* handler invocations and reloads per behaviour of Spec
MaxTicks == 1          \* milliseconds that pass in one behaviour of Spec
MaxFaults == 1         \* storage and file-system failures per behaviour of Spec
MaxRestarts == 1       \* page reloads per behaviour of Spec
ViewYear == 2024       \* the year in which the app is opened
ViewMonth == 1         \* the month (1..12) in which the app is opened
Now0 == 10             \* Date.now() when the page is opened

-----------------------------------------------------------------------------
(* JavaScript values *)

Undefined == "undefined"

None == [none |-> TRUE]

Null == [null |-> TRUE]

\* { ...obj, ...over }
Spread(obj, over) ==
    [k \in (DOMAIN obj) \cup (DOMAIN over) |->
        IF k \in DOMAIN over THEN over[k] ELSE obj[k]]

\* obj.k  (undefined when the property is missing)
Has(obj, k) == k \in DOMAIN obj

\* Array.prototype.map
RECURSIVE MapSeq(_, _)
MapSeq(Op(_), s) ==
    IF s = <<>> THEN <<>> ELSE <<Op(Head(s))>> \o MapSeq(Op, Tail(s))

-----------------------------------------------------------------------------
(* types.ts *)

InspectionStatus == {"good", "minor", "poor", "critical", "na"}

-----------------------------------------------------------------------------
(* Summary projection *)

\* A projection that empties photos but leaves the legacy photo in place.
StripItemKeepsLegacy(item) == Spread(item, [photos |-> <<>>])

\* item => ({ ...item, photos: [], photo: undefined })
StripItem(item) == Spread(item, [photos |-> <<>>, photo |-> Undefined])

\* db: stripPhotos
stripPhotos(report) ==
    Spread(report, [items |-> MapSeq(StripItem, report.items)])

\* App: const summary = { ...fullReport, items: normalizedItems.map(...) }
SummaryOf(fullReport, normalizedItems) ==
    Spread(fullReport, [items |-> MapSeq(StripItem, normalizedItems)])

-----------------------------------------------------------------------------
(* Tally *)

\* One turn of the forEach body of calculateRowStats: the if / else-if chain.
TallyItem(acc, i) ==
    IF i.status = "good" THEN [acc EXCEPT !.good = @ + 1]
    ELSE IF i.status = "minor" THEN [acc EXCEPT !.minor = @ + 1]
    ELSE IF i.status = "poor" THEN [acc EXCEPT !.poor = @ + 1]
    ELSE IF i.status = "critical" THEN [acc EXCEPT !.critical = @ + 1]
    ELSE IF i.status = "na" THEN [acc EXCEPT !.na = @ + 1]
    ELSE acc

RECURSIVE TallyLoop(_, _)
TallyLoop(acc, items) ==
    IF items = <<>> THEN acc
    ELSE TallyLoop(TallyItem(acc, Head(items)), Tail(items))

\* A tally whose total is the item count instead of the sum of the buckets.
calculateRowStatsCountsAll(items) ==
    LET c == TallyLoop([good |-> 0, minor |-> 0, poor |-> 0,
                        critical |-> 0, na |-> 0], items)
    IN  [good |-> c.good, minor |-> c.minor, poor |-> c.poor,
         critical |-> c.critical, na |-> c.na, total |-> Len(items)]

\* App: calculateRowStats
calculateRowStats(items) ==
    LET c == TallyLoop([good |-> 0, minor |-> 0, poor |-> 0,
                        critical |-> 0, na |-> 0], items)
    IN  [good |-> c.good, minor |-> c.minor, poor |-> c.poor,
         critical |-> c.critical, na |-> c.na,
         total |-> c.good + c.minor + c.poor + c.critical + c.na]

-----------------------------------------------------------------------------
(* constants.ts *)

AIRPORTS ==
    <<"Incheon", "Gimpo", "Gimhae", "Jeju", "Daegu", "Pohang", "Muan", "Cheongju",
      "Ulsan", "Yangyang", "Gunsan", "Gwangju", "Yeosu", "Sacheon", "Wonju">>

-----------------------------------------------------------------------------
(* Date *)

MonthsPerYear == 12

TimeZones == {-1, 0, 1}

\* A date string "YYYY-MM-DD..." in UTC
DateStr(y, m, d) == [y |-> y, m |-> m, d |-> d]

\* new Date(str).getTime()
ParseDate(str) == (str.y * MonthsPerYear + (str.m - 1)) * TicksPerMonth + str.d

\* Date.prototype.toISOString of the instant t
toISOString(t) ==
    DateStr(t \div (MonthsPerYear * TicksPerMonth),
            ((t \div TicksPerMonth) % MonthsPerYear) + 1,
            t % TicksPerMonth)

\* Date.prototype.getFullYear / getMonth: fields of the local time
getFullYear(t) == (t + tz) \div (MonthsPerYear * TicksPerMonth)

getMonth(t) == ((t + tz) \div TicksPerMonth) % MonthsPerYear

\* new Date(year, monthIndex, 1).getTime(): local midnight of the first
NewDateLocal(year, monthIndex) ==
    (year * MonthsPerYear + monthIndex) * TicksPerMonth - tz

\* Date.prototype.getTimezoneOffset: UTC minus local time
getTimezoneOffset == 0 - tz

-----------------------------------------------------------------------------
(* Report ids *)

\* Date.now() + Math.random() as a double.  Math.random() is in [0, 1); the
\* sum is rounded to the nearest representable double, a multiple of 1/IdRes
\* (2^-12 for the present epoch), so the fraction q ranges over 0..IdRes:
\* a random value within half a step of 1 rounds up to Date.now() + 1.
RandomFractions == 0..IdRes

DateNowPlusRandom(t, q) == t * IdRes + q

\* Date.now() as a report id (handleSingleFileChange)
DateNowId(t) == t * IdRes

\* if (x) for an id: undefined and 0 are falsy
TruthyId(r) == Has(r, "id") /\ r.id # 0

-----------------------------------------------------------------------------
(* db: the two object stores *)

\* store.put(report) under keyPath 'id'
Put(store, report) ==
    [k \in (DOMAIN store) \cup {report.id} |->
        IF k = report.id THEN report ELSE store[k]]

\* store.delete(id)
Remove(store, id) == [k \in (DOMAIN store) \ {id} |-> store[k]]

\* store.get(id)
Get(store, id) == IF id \in DOMAIN store THEN store[id] ELSE Undefined

EmptyStore == [k \in {} |-> 0]

NoLegacy == [has |-> FALSE, val |-> <<>>]

\* The legacy store holds no report.
LegacyEmpty(l) == l.val = <<>>

\* A put that writes the list projection instead of the full record.
saveReportToDBStripped(store, report, ok) ==
    IF ok THEN [v2 |-> Put(store, stripPhotos(report)), status |-> "resolved"]
    ELSE [v2 |-> store, status |-> "rejected"]

\* db: saveReportToDB.  ok = FALSE: the open or the put request fails.
saveReportToDB(store, report, ok) ==
    IF ok THEN [v2 |-> Put(store, report), status |-> "resolved"]
    ELSE [v2 |-> store, status |-> "rejected"]

\* A delete that rejects when the key is absent.
deleteReportFromDBStrict(store, id, ok) ==
    IF ok /\ id \in DOMAIN store
    THEN [v2 |-> Remove(store, id), status |-> "resolved"]
    ELSE [v2 |-> store, status |-> "rejected"]

\* db: deleteReportFromDB
deleteReportFromDB(store, id, ok) ==
    IF ok THEN [v2 |-> Remove(store, id), status |-> "resolved"]
    ELSE [v2 |-> store, status |-> "rejected"]

\* db: loadReportFull
loadReportFull(store, id, ok) ==
    IF ok THEN [result |-> Get(store, id), status |-> "resolved"]
    ELSE [result |-> Undefined, status |-> "rejected"]

\* clearAllDB: the stores after the first n clear() requests of the
\* transaction, reports_v2 first, the legacy store second
ClearRequests(store, leg, n) ==
    [v2 |-> IF n >= 1 THEN EmptyStore ELSE store,
     legacy |-> IF n >= 2 THEN NoLegacy ELSE leg]

\* The requests of clearAllDB that can fail; 0 stands for none.
ClearFailures == {1, 2}

\* A clearAllDB whose requests are not undone when a later one fails.
clearAllDBNoRollback(store, leg, failAt) ==
    IF failAt = 0
    THEN [v2 |-> EmptyStore, legacy |-> NoLegacy, status |-> "resolved"]
    ELSE [v2 |-> ClearRequests(store, leg, failAt - 1).v2,
          legacy |-> ClearRequests(store, leg, failAt - 1).legacy,
          status |-> "rejected"]

\* db: clearAllDB: one readwrite transaction over both stores.  When the
\* request failAt fails, the error reaches the transaction, which aborts:
\* what its earlier requests did is undone, tx.onerror rejects.
clearAllDB(store, leg, failAt) ==
    IF failAt = 0
    THEN [v2 |-> ClearRequests(store, leg, 2).v2,
          legacy |-> ClearRequests(store, leg, 2).legacy,
          status |-> "resolved"]
    ELSE [v2 |-> ClearRequests(store, leg, 0).v2,
          legacy |-> ClearRequests(store, leg, 0).legacy,
          status |-> "rejected"]

\* id: r.id || (Date.now() + Math.random() + count++)
MigratedId(r, t, q, count) ==
    IF TruthyId(r) THEN r.id ELSE DateNowPlusRandom(t, q) + count * IdRes

\* oldData.forEach(r => v2Store.put({ ...r, id: ... })).  ent[i] gives the
\* clock advance before report i and the random fraction drawn for it.
RECURSIVE MigrateLoop(_, _, _, _, _)
MigrateLoop(store, oldData, ent, t, count) ==
    IF oldData = <<>> THEN [v2 |-> store, now |-> t, written |-> <<>>]
    ELSE LET r == Head(oldData)
             t1 == t + Head(ent).dt
             rWithId == Spread(r, [id |-> MigratedId(r, t1, Head(ent).q, count)])
             rest == MigrateLoop(Put(store, rWithId), Tail(oldData), Tail(ent), t1,
                                 IF TruthyId(r) THEN count ELSE count + 1)
         IN  [rest EXCEPT !.written = <<rWithId>> \o @]

\* What one run of the loop draws from the clock and from Math.random()
Entropy(n) == [1..n -> [dt : 0..1, q : RandomFractions]]

NoEntropy(n) == {[i \in 1..n |-> [dt |-> 0, q |-> 0]]}

\* A migration that leaves the legacy blob in place.
migrateLegacyDataKeepsBlob(store, leg, t, ent, outcome) ==
    IF outcome = "commit" /\ leg.has /\ leg.val # <<>>
    THEN LET m == MigrateLoop(store, leg.val, ent, t, 0)
         IN  [v2 |-> m.v2, legacy |-> leg, now |-> m.now, written |-> m.written]
    ELSE [v2 |-> store, legacy |-> leg, now |-> t, written |-> <<>>]

\* A migration in which the error of a failed put is ignored: the other
\* requests go on, the delete of the blob included, and the transaction
\* commits without the last report.
migrateLegacyDataIgnoresPutError(store, leg, t, ent, outcome) ==
    IF outcome \in {"commit", "abort"} /\ leg.has /\ leg.val # <<>>
    THEN LET done == IF outcome = "commit" THEN leg.val
                     ELSE SubSeq(leg.val, 1, Len(leg.val) - 1)
             m == MigrateLoop(store, done, ent, t, 0)
         IN  [v2 |-> m.v2, legacy |-> NoLegacy, now |-> m.now, written |-> m.written]
    ELSE [v2 |-> store, legacy |-> leg, now |-> t, written |-> <<>>]

\* db: migrateLegacyData.  One readwrite transaction over both stores:
\*   "commit"   every request succeeds;
\*   "geterror" the get of the legacy blob fails;
\*   "abort"    a put fails.  The puts and the delete are issued in one turn
\*              of req.onsuccess and none of them has an error handler, so
\*              the error of the failed put reaches the transaction, which
\*              aborts: the requests after the failed one (the delete of the
\*              blob is the last) are dropped and what the earlier puts
\*              wrote is undone.
\* The promise resolves in all three.
migrateLegacyData(store, leg, t, ent, outcome) ==
    IF outcome = "commit" /\ leg.has /\ leg.val # <<>>
    THEN LET m == MigrateLoop(store, leg.val, ent, t, 0)
         IN  [v2 |-> m.v2, legacy |-> NoLegacy, now |-> m.now, written |-> m.written]
    ELSE [v2 |-> store, legacy |-> leg, now |-> t, written |-> <<>>]

\* IDBObjectStore.openCursor(): keys in ascending order
RECURSIVE KeysAsc(_)
KeysAsc(S) ==
    IF S = {} THEN <<>>
    ELSE LET m == CHOOSE x \in S : \A y \in S : x <= y
         IN  <<m>> \o KeysAsc(S \ {m})

\* The cursor loop of loadReportsMetadata
ListStripped(store) ==
    LET ks == KeysAsc(DOMAIN store)
    IN  [i \in 1..Len(ks) |-> stripPhotos(store[ks[i]])]

\* A loadReportsMetadata whose cursor reads reports_v2 as it was before the
\* migration.
loadReportsMetadataReadsFirst(store, leg, t, ent, outcome, ok) ==
    LET m == migrateLegacyData(store, leg, t, ent, outcome)
    IN  [v2 |-> m.v2, legacy |-> m.legacy, now |-> m.now, written |-> m.written,
         outcome |-> outcome,
         status |-> IF ok THEN "resolved" ELSE "rejected",
         result |-> IF ok THEN ListStripped(store) ELSE <<>>]

\* db: loadReportsMetadata = migrateLegacyData, then the cursor over reports_v2
loadReportsMetadata(store, leg, t, ent, outcome, ok) ==
    LET m == migrateLegacyData(store, leg, t, ent, outcome)
    IN  [v2 |-> m.v2, legacy |-> m.legacy, now |-> m.now, written |-> m.written,
         outcome |-> outcome,
         status |-> IF ok THEN "resolved" ELSE "rejected",
         result |-> IF ok THEN ListStripped(m.v2) ELSE <<>>]

-----------------------------------------------------------------------------
(* Aggregation / query *)

\* The predicate with the month compared zero-based.
MatchesViewZeroBased(r, airport) ==
    /\ r.airport = airport
    /\ getFullYear(ParseDate(r.date)) = selectedYear
    /\ getMonth(ParseDate(r.date)) = selectedMonth

\* r.airport === airport && d.getFullYear() === selectedYear
\*                       && (d.getMonth() + 1) === selectedMonth
MatchesView(r, airport) ==
    /\ r.airport = airport
    /\ getFullYear(ParseDate(r.date)) = selectedYear
    /\ getMonth(ParseDate(r.date)) + 1 = selectedMonth

\* Array.prototype.find: the first element that satisfies the test
FindRow(list, airport) ==
    LET hits == {i \in 1..Len(list) : MatchesView(list[i], airport)}
    IN  IF hits = {} THEN 0 ELSE CHOOSE i \in hits : \A j \in hits : i <= j

\* App: tableData
tableData ==
    [k \in 1..Len(AIRPORTS) |->
        LET i == FindRow(reports, AIRPORTS[k])
        IN  IF i = 0 THEN [airport |-> AIRPORTS[k], hasData |-> FALSE]
            ELSE [airport |-> AIRPORTS[k], hasData |-> TRUE, report |-> reports[i],
                  stats |-> calculateRowStats(reports[i].items)]]

-----------------------------------------------------------------------------
(* App: import helpers *)

\* if (x) for a string property: undefined and "" are falsy
TruthyStr(obj, k) == Has(obj, k) /\ obj[k] # "" /\ obj[k] # Undefined

\* A normalisation that does not promote the legacy photo.
NormalizeItemDropsLegacy(i) ==
    Spread(i, [photos |-> IF Has(i, "photos") THEN i.photos ELSE <<>>])

\* i => ({ ...i, photos: i.photos ? i.photos : (i.photo ? [i.photo] : []) })
NormalizeItem(i) ==
    Spread(i, [photos |-> IF Has(i, "photos") THEN i.photos
                          ELSE IF TruthyStr(i, "photo") THEN <<i.photo>>
                          ELSE <<>>])

\* (json.items || []).map(...)
NormalizedItems(json) ==
    IF Has(json, "items") THEN MapSeq(NormalizeItem, json.items) ELSE <<>>

\* A validity check that lets a file without items pass.
ValidImportItemsOptional(json) == TruthyStr(json, "airport") /\ Has(json, "date")

\* handleFolderChange: json.airport && json.items && json.date
ValidImport(json) ==
    TruthyStr(json, "airport") /\ Has(json, "items") /\ Has(json, "date")

\* A full report in which the fields of the file win over the new ones.
FolderFullReportKeepsFileId(json, id) ==
    Spread([items |-> NormalizedItems(json), id |-> id], json)

\* handleFolderChange: const fullReport = { ...json, items: normalizedItems, id }
FolderFullReport(json, id) ==
    Spread(json, [items |-> NormalizedItems(json), id |-> id])

\* handleSingleFileChange: the date written into the uploaded report,
\* new Date(viewDate.getTime() - viewDate.getTimezoneOffset() * 60000).toISOString()
ViewIsoDate ==
    toISOString(NewDateLocal(selectedYear, selectedMonth - 1) - getTimezoneOffset)

\* handleSingleFileChange: const fullReport = { ...json, airport, date, items, id }
SingleFullReport(json, target, id) ==
    Spread(json, [airport |-> target, date |-> ViewIsoDate,
                  items |-> NormalizedItems(json), id |-> id])

\* The check of the uploaded file's airport, left out.
AirportMismatchIgnored(json, target) == FALSE

\* handleSingleFileChange: json.airport !== targetAirportForUpload
AirportMismatch(json, target) ==
    IF Has(json, "airport") THEN json.airport # target ELSE TRUE

\* handleFolderChange, inside setReports: the same airport and the same
\* local year and month
SameSlot(existing, newR) ==
    /\ existing.airport = newR.airport
    /\ getFullYear(ParseDate(existing.date)) = getFullYear(ParseDate(newR.date))
    /\ getMonth(ParseDate(existing.date)) = getMonth(ParseDate(newR.date))

\* merged.findIndex(...); if (idx >= 0) merged[idx] = newR; else merged.push(newR)
MergeOne(list, newR) ==
    LET hits == {i \in 1..Len(list) : SameSlot(list[i], newR)}
    IN  IF hits = {} THEN Append(list, newR)
        ELSE [list EXCEPT ![CHOOSE i \in hits : \A j \in hits : i <= j] = newR]

\* newSummaries.forEach(...)
RECURSIVE MergeAll(_, _)
MergeAll(prev, newSummaries) ==
    IF newSummaries = <<>> THEN prev
    ELSE MergeAll(MergeOne(prev, Head(newSummaries)), Tail(newSummaries))

\* Array.prototype.filter
RECURSIVE FilterSeq(_, _)
FilterSeq(Test(_), list) ==
    IF list = <<>> THEN <<>>
    ELSE (IF Test(Head(list)) THEN <<Head(list)>> ELSE <<>>)
            \o FilterSeq(Test, Tail(list))

\* handleSingleFileChange, inside setReports: [...others, summary]
ReplaceInView(prev, target, summary) ==
    LET Other(r) == ~MatchesView(r, target)
    IN  Append(FilterSeq(Other, prev), summary)

\* handleDeleteReport: prev.filter(r => r.id !== report.id)
WithoutId(prev, id) ==
    LET Keep(r) == r.id # id
    IN  FilterSeq(Keep, prev)

\* JSON.parse(JSON.stringify(x)) for a report: properties holding undefined
\* are dropped
JsonItem(i) == [k \in {n \in DOMAIN i : n = "photos" \/ i[n] # Undefined} |-> i[k]]

JsonReport(r) == Spread(r, [items |-> MapSeq(JsonItem, r.items)])

-----------------------------------------------------------------------------
(* Bounded input sets *)

EmptyObj == [k \in {} |-> ""]

SeqsUpTo(S, n) == UNION {[1..k -> S] : k \in 0..n}

ItemInputs ==
    {Spread(Spread(Spread([category |-> "facility", label |-> "runway", status |-> s],
                          ph), p), o) :
        s \in {"good", "critical"},
        ph \in {EmptyObj, [photos |-> <<>>], [photos |-> <<"img1", "img2">>]},
        p \in {EmptyObj, [photo |-> "img0"]},
        o \in {EmptyObj, [opinion |-> "note"]}}

ReportInputs ==
    {Spread(Spread([id |-> 7, airport |-> "Incheon", date |-> DateStr(2024, 3, 0),
                    inspector |-> "kim", items |-> its], cd), x) :
        its \in SeqsUpTo(ItemInputs, MaxItems),
        cd \in {EmptyObj, [categoryDates |-> [facility |-> DateStr(2024, 3, 1)]]},
        x \in {EmptyObj, [memo |-> "extra"]}}

StatusInputs ==
    SeqsUpTo({[category |-> "facility", label |-> "runway", status |-> s] :
                 s \in InspectionStatus \cup {"unknown"}}, MaxStatusItems)

-----------------------------------------------------------------------------
(* Inputs of the App component *)

UploadAirports == {"Incheon", "Gimpo"}

\* The first instant of the viewed month in UTC, and the one before it
ViewStartUtc == (ViewYear * MonthsPerYear + (ViewMonth - 1)) * TicksPerMonth

InputDates == {toISOString(ViewStartUtc), toISOString(ViewStartUtc - 1)}

ItemWithPhotos ==
    [category |-> "facility", label |-> "runway", status |-> "good",
     photos |-> <<"img1">>]

ItemWithLegacyPhoto ==
    [category |-> "facility", label |-> "apron", status |-> "critical",
     photo |-> "img0"]

JsonFile(json) == [ext |-> "json", parses |-> TRUE, json |-> json]

InMonthFile(a, who) ==
    JsonFile([airport |-> a, date |-> toISOString(ViewStartUtc), inspector |-> who,
              items |-> <<ItemWithPhotos>>])

\* dated at the last instant before the viewed month starts in UTC
EarlierFile ==
    JsonFile([airport |-> "Incheon", date |-> toISOString(ViewStartUtc - 1),
              inspector |-> "kim", items |-> <<ItemWithPhotos>>])

\* carries an id, an unknown field, a legacy photo and categoryDates
ExtrasFile ==
    JsonFile([id |-> 99, memo |-> "extra", airport |-> "Incheon",
              date |-> toISOString(ViewStartUtc), inspector |-> "lee",
              items |-> <<ItemWithLegacyPhoto, ItemWithPhotos>>,
              categoryDates |-> [facility |-> toISOString(ViewStartUtc + 1)]])

\* lacks items
NoItemsFile ==
    JsonFile([airport |-> "Gimpo", date |-> toISOString(ViewStartUtc),
              inspector |-> "kim"])

\* is no JSON text
BrokenFile == [ext |-> "json", parses |-> FALSE, json |-> EmptyObj]

TextFile == [ext |-> "txt", parses |-> FALSE, json |-> EmptyObj]

\* What the single-file picker can hand over
FileInputs ==
    {InMonthFile("Incheon", "kim"), InMonthFile("Gimpo", "kim"), ExtrasFile, BrokenFile}

\* What the folder picker can hand over
FolderInputs ==
    {<<ExtrasFile, InMonthFile("Incheon", "kim")>>,
     <<InMonthFile("Gimpo", "kim"), EarlierFile>>,
     <<NoItemsFile, InMonthFile("Incheon", "kim"), BrokenFile>>,
     <<BrokenFile, TextFile>>,
     <<TextFile>>}

\* A full report stored by an earlier session
OldReport ==
    [id |-> DateNowId(1), airport |-> "Incheon", date |-> toISOString(ViewStartUtc),
     inspector |-> "park", items |-> <<ItemWithPhotos>>]

\* What an earlier session left in IndexedDB: nothing (a fresh install), or a
\* report in reports_v2 and a not yet migrated blob
AppDbInputs ==
    {[v2 |-> EmptyStore, legacy |-> NoLegacy],
     [v2 |-> Put(EmptyStore, OldReport),
      legacy |-> [has |-> TRUE,
                  val |-> <<[airport |-> "Gimpo", date |-> toISOString(ViewStartUtc),
                             inspector |-> "choi",
                             items |-> <<ItemWithLegacyPhoto>>]>>]]}

NoFile == [exists |-> FALSE, valid |-> FALSE, data |-> <<>>]

FsInputs ==
    {NoFile,
     [exists |-> TRUE, valid |-> FALSE, data |-> <<>>],
     [exists |-> TRUE, valid |-> TRUE, data |-> <<OldReport>>]}

-----------------------------------------------------------------------------
(* The App component *)

StatusEvery == 5

IdleJob == [pc |-> "idle"]

NoStatus == [msg |-> "", n |-> 0]

NoTarget == "null"

NoCall == [op |-> "none", id |-> 0, status |-> "resolved", fault |-> FALSE]

otherVars == <<input, output, pc, live, calls, exportVars>>

\* No export is requested, none is being generated.
ExportIdle ==
    /\ exportJob = Null
    /\ isGenerating = FALSE
    /\ exportRun = IdleJob
    /\ pdfRequest = IdleJob
    /\ exports = 0

\* The function-level specifications leave the App component as constructed.
AppDormant ==
    /\ tz = 0
    /\ electronAPI = FALSE
    /\ selectedYear = ViewYear
    /\ selectedMonth = ViewMonth
    /\ localAdmin = FALSE
    /\ fsFile = NoFile
    /\ reports = <<>>
    /\ isDbLoaded = FALSE
    /\ uploadStatus = NoStatus
    /\ alertMsg = ""
    /\ targetAirportForUpload = NoTarget
    /\ saveTimer = FALSE
    /\ ExportIdle
    /\ initJob = [pc |-> "start"]
    /\ folderJob = IdleJob
    /\ singleJob = IdleJob
    /\ deleteJob = IdleJob
    /\ resetJob = IdleJob
    /\ merged = [n |-> 0, batch |-> <<>>]
    /\ ops = 0
    /\ restarts = 0
    /\ faults = 0

\* State after construction: nothing in memory, the mount effect not yet run.
\* What an earlier session left behind is in IndexedDB (web) or in the
\* reports file (Electron).
Init ==
    /\ tz \in TimeZones
    /\ electronAPI \in BOOLEAN
    /\ now = Now0
    /\ selectedYear = ViewYear
    /\ selectedMonth = ViewMonth
    /\ IF electronAPI
       THEN v2 = EmptyStore /\ legacy = NoLegacy /\ localAdmin = FALSE
            /\ fsFile \in FsInputs
       ELSE /\ \E db \in AppDbInputs : v2 = db.v2 /\ legacy = db.legacy
            /\ localAdmin = TRUE
            /\ fsFile = NoFile
    /\ reports = <<>>
    /\ isDbLoaded = FALSE
    /\ uploadStatus = NoStatus
    /\ alertMsg = ""
    /\ targetAirportForUpload = NoTarget
    /\ saveTimer = FALSE
    /\ ExportIdle
    /\ initJob = [pc |-> "start"]
    /\ folderJob = IdleJob
    /\ singleJob = IdleJob
    /\ deleteJob = IdleJob
    /\ resetJob = IdleJob
    /\ merged = [n |-> 0, batch |-> <<>>]
    /\ ops = 0
    /\ restarts = 0
    /\ faults = 0
    /\ input = None
    /\ output = NoCall
    /\ pc = "app"
    /\ live = {}
    /\ calls = 0

\* After setReports or setIsDbLoaded the save effect runs again: it arms its
\* timer when electronAPI && isDbLoaded.
Armed(loaded) == electronAPI /\ loaded

\* Whether a storage request or a file-system call succeeds is up to the
\* environment.
Oks == IF faults < MaxFaults THEN BOOLEAN ELSE {TRUE}

Charge(ok) == faults' = IF ok THEN faults ELSE faults + 1

\* Date.now() never runs backwards: a read returns the last value read or a
\* later one.
Clock == now..(IF now < Now0 + MaxTicks THEN Now0 + MaxTicks ELSE now)

\* A handler can be invoked once the mount effect has run.
CanStart == initJob.pc # "start" /\ ops < MaxOps

\* App: the mount effect, up to its first await
InitEffect ==
    /\ initJob.pc = "start"
    /\ IF electronAPI
       THEN /\ reports' = IF fsFile.exists /\ fsFile.valid THEN fsFile.data ELSE reports
            /\ isDbLoaded' = TRUE
            /\ saveTimer' = TRUE
            /\ initJob' = [pc |-> "done"]
            /\ UNCHANGED <<v2, legacy, now, faults>>
       ELSE \E outcome \in {"commit", "geterror", "abort"}, ok \in BOOLEAN :
            \E ent \in IF outcome = "commit" THEN Entropy(Len(legacy.val))
                       ELSE NoEntropy(Len(legacy.val)) :
            \E c \in {loadReportsMetadata(v2, legacy, now, ent, outcome, ok)} :
               /\ (outcome = "commit" /\ ok) \/ faults < MaxFaults
               /\ Charge(outcome = "commit" /\ ok)
               /\ v2' = c.v2
               /\ legacy' = c.legacy
               /\ now' = c.now
               /\ initJob' = [pc |-> "await", status |-> c.status, result |-> c.result]
               /\ UNCHANGED <<reports, isDbLoaded, saveTimer>>
    /\ UNCHANGED <<envVars, localAdmin, fsFile, uploadStatus, alertMsg,
                   targetAirportForUpload, folderJob, singleJob, deleteJob, resetJob,
                   merged, ops, restarts, otherVars>>

\* App: the mount effect after await loadReportsMetadata()
InitLoaded ==
    /\ initJob.pc = "await"
    /\ reports' = IF initJob.status = "resolved" THEN initJob.result ELSE reports
    /\ isDbLoaded' = TRUE
    /\ saveTimer' = Armed(TRUE)
    /\ initJob' = [pc |-> "done"]
    /\ UNCHANGED <<envVars, now, storeVars, uploadStatus, alertMsg,
                   targetAirportForUpload, folderJob, singleJob, deleteJob, resetJob,
                   histVars, otherVars>>

\* App: handleFolderChange, from the change event to the first await
FolderChange ==
    /\ CanStart
    /\ folderJob.pc = "idle"
    /\ \E files \in FolderInputs :
          LET IsJson(f) == f.ext = "json"
              fileList == FilterSeq(IsJson, files)
          IN  IF fileList = <<>>
              THEN /\ alertMsg' = "no JSON file"
                   /\ UNCHANGED <<uploadStatus, folderJob>>
              ELSE /\ uploadStatus' = [msg |-> "processing", n |-> 0]
                   /\ folderJob' = [pc |-> "text", files |-> fileList,
                                    newSummaries |-> <<>>, processedCount |-> 0]
                   /\ UNCHANGED alertMsg
    /\ ops' = ops + 1
    /\ UNCHANGED <<envVars, now, storeVars, reports, isDbLoaded,
                   targetAirportForUpload, saveTimer, initJob, singleJob, deleteJob,
                   resetJob, merged, restarts, faults, otherVars>>

\* handleFolderChange: the end of one turn of the for loop.  Either the next
\* file is read, or the loop is over and the new summaries are merged.
FolderContinue(rest, summaries, count, pushed) ==
    IF rest # <<>>
    THEN /\ folderJob' = [pc |-> "text", files |-> rest, newSummaries |-> summaries,
                          processedCount |-> count]
         /\ uploadStatus' = IF pushed /\ count % StatusEvery = 0
                            THEN [msg |-> "processing", n |-> count]
                            ELSE uploadStatus
         /\ UNCHANGED <<reports, saveTimer, merged>>
    ELSE /\ folderJob' = IdleJob
         /\ IF count > 0
            THEN /\ reports' = MergeAll(reports, summaries)
                 /\ saveTimer' = Armed(isDbLoaded)
                 /\ merged' = [n |-> merged.n + 1, batch |-> summaries]
                 /\ uploadStatus' = [msg |-> "loaded", n |-> count]
            ELSE /\ uploadStatus' = [msg |-> "no valid file", n |-> 0]
                 /\ UNCHANGED <<reports, saveTimer, merged>>

\* A handleFolderChange that does not await saveReportToDB: the put is
\* issued and the loop goes on to the next file at once.
FolderTextNoAwait ==
    /\ folderJob.pc = "text"
    /\ LET f == Head(folderJob.files)
           rest == Tail(folderJob.files)
       IN  IF ~f.parses \/ ~ValidImport(f.json)
           THEN /\ FolderContinue(rest, folderJob.newSummaries,
                                  folderJob.processedCount, FALSE)
                /\ UNCHANGED <<v2, now, faults>>
           ELSE \E t \in Clock, q \in RandomFractions :
                \E full \in {FolderFullReport(f.json, DateNowPlusRandom(t, q))} :
                /\ now' = t
                /\ IF ~electronAPI
                   THEN \E ok \in Oks :
                           /\ Charge(ok)
                           /\ v2' = saveReportToDB(v2, full, ok).v2
                           /\ FolderContinue(rest,
                                  Append(folderJob.newSummaries,
                                         SummaryOf(full, full.items)),
                                  folderJob.processedCount + 1, TRUE)
                   ELSE /\ FolderContinue(rest,
                               Append(folderJob.newSummaries, SummaryOf(full, full.items)),
                               folderJob.processedCount + 1, TRUE)
                        /\ UNCHANGED <<v2, faults>>
    /\ UNCHANGED <<envVars, legacy, localAdmin, fsFile, isDbLoaded, alertMsg,
                   targetAirportForUpload, initJob, singleJob, deleteJob, resetJob,
                   ops, restarts, otherVars>>

\* handleFolderChange after await file.text(): parse, check, build the full
\* report and hand it to saveReportToDB (web), or go on at once (Electron)
FolderText ==
    /\ folderJob.pc = "text"
    /\ LET f == Head(folderJob.files)
           rest == Tail(folderJob.files)
       IN  IF ~f.parses \/ ~ValidImport(f.json)
           THEN /\ FolderContinue(rest, folderJob.newSummaries,
                                  folderJob.processedCount, FALSE)
                /\ UNCHANGED <<v2, now, faults>>
           ELSE \E t \in Clock, q \in RandomFractions :
                \E full \in {FolderFullReport(f.json, DateNowPlusRandom(t, q))} :
                /\ now' = t
                /\ IF ~electronAPI
                   THEN \E ok \in Oks :
                           /\ Charge(ok)
                           /\ v2' = saveReportToDB(v2, full, ok).v2
                           /\ folderJob' = [pc |-> "save", files |-> folderJob.files,
                                            newSummaries |-> folderJob.newSummaries,
                                            processedCount |-> folderJob.processedCount,
                                            full |-> full, ok |-> ok]
                           /\ UNCHANGED <<reports, saveTimer, merged, uploadStatus>>
                   ELSE /\ FolderContinue(rest,
                               Append(folderJob.newSummaries, SummaryOf(full, full.items)),
                               folderJob.processedCount + 1, TRUE)
                        /\ UNCHANGED <<v2, faults>>
    /\ UNCHANGED <<envVars, legacy, localAdmin, fsFile, isDbLoaded, alertMsg,
                   targetAirportForUpload, initJob, singleJob, deleteJob, resetJob,
                   ops, restarts, otherVars>>

\* handleFolderChange after await saveReportToDB(fullReport): the summary is
\* pushed, or the rejection is caught and logged
FolderSaved ==
    /\ folderJob.pc = "save"
    /\ IF folderJob.ok
       THEN FolderContinue(Tail(folderJob.files),
                Append(folderJob.newSummaries,
                       SummaryOf(folderJob.full, folderJob.full.items)),
                folderJob.processedCount + 1, TRUE)
       ELSE FolderContinue(Tail(folderJob.files), folderJob.newSummaries,
                           folderJob.processedCount, FALSE)
    /\ UNCHANGED <<envVars, now, storeVars, isDbLoaded, alertMsg,
                   targetAirportForUpload, initJob, singleJob, deleteJob, resetJob,
                   ops, restarts, faults, otherVars>>

\* App: handleSingleFileUploadRequest
SingleFileUploadRequest ==
    /\ CanStart
    /\ \E airport \in UploadAirports :
          /\ targetAirportForUpload # airport
          /\ targetAirportForUpload' = airport
    /\ UNCHANGED <<envVars, now, storeVars, reports, isDbLoaded, uploadStatus,
                   alertMsg, saveTimer, jobVars, histVars, otherVars>>

\* App: handleSingleFileChange, from the change event to await file.text()
SingleFileChange ==
    /\ CanStart
    /\ singleJob.pc = "idle"
    /\ targetAirportForUpload # NoTarget
    /\ \E f \in FileInputs :
          singleJob' = [pc |-> "text", file |-> f, target |-> targetAirportForUpload]
    /\ ops' = ops + 1
    /\ UNCHANGED <<envVars, now, storeVars, uiVars, initJob, folderJob, deleteJob,
                   resetJob, merged, restarts, faults, otherVars>>

\* handleSingleFileChange: setReports, setUploadStatus, setTargetAirportForUpload
SingleCommit(full, target) ==
    /\ reports' = ReplaceInView(reports, target, SummaryOf(full, full.items))
    /\ saveTimer' = Armed(isDbLoaded)
    /\ merged' = [n |-> merged.n + 1, batch |-> <<SummaryOf(full, full.items)>>]
    /\ uploadStatus' = [msg |-> "updated", n |-> 1]
    /\ targetAirportForUpload' = NoTarget
    /\ singleJob' = IdleJob
    /\ UNCHANGED alertMsg

\* handleSingleFileChange after await file.text()
SingleText ==
    /\ singleJob.pc = "text"
    /\ LET f == singleJob.file
           target == singleJob.target
       IN  IF ~f.parses
           THEN /\ alertMsg' = "upload failed"
                /\ singleJob' = IdleJob
                /\ UNCHANGED <<v2, now, faults, reports, saveTimer, merged,
                               uploadStatus, targetAirportForUpload>>
           ELSE IF AirportMismatch(f.json, target)
           THEN /\ alertMsg' = "airport does not match"
                /\ singleJob' = IdleJob
                /\ UNCHANGED <<v2, now, faults, reports, saveTimer, merged,
                               uploadStatus, targetAirportForUpload>>
           ELSE \E t \in Clock :
                \E full \in {SingleFullReport(f.json, target, DateNowId(t))} :
                /\ now' = t
                /\ IF ~electronAPI
                   THEN \E ok \in Oks :
                           /\ Charge(ok)
                           /\ v2' = saveReportToDB(v2, full, ok).v2
                           /\ singleJob' = [pc |-> "save", file |-> f, target |-> target,
                                            full |-> full, ok |-> ok]
                           /\ UNCHANGED <<reports, saveTimer, merged, uploadStatus,
                                          targetAirportForUpload, alertMsg>>
                   ELSE /\ SingleCommit(full, target)
                        /\ UNCHANGED <<v2, faults>>
    /\ UNCHANGED <<envVars, legacy, localAdmin, fsFile, isDbLoaded, initJob,
                   folderJob, deleteJob, resetJob, ops, restarts, otherVars>>

\* handleSingleFileChange after await saveReportToDB(fullReport)
SingleSaved ==
    /\ singleJob.pc = "save"
    /\ IF singleJob.ok
       THEN SingleCommit(singleJob.full, singleJob.target)
       ELSE /\ alertMsg' = "upload failed"
            /\ singleJob' = IdleJob
            /\ UNCHANGED <<reports, saveTimer, merged, uploadStatus,
                           targetAirportForUpload>>
    /\ UNCHANGED <<envVars, now, storeVars, isDbLoaded, initJob, folderJob,
                   deleteJob, resetJob, ops, restarts, faults, otherVars>>

\* App: handleDeleteReport (confirmed), from the click on a row that shows a
\* report to await deleteReportFromDB (web) or to its end (Electron).  The
\* job records the list the handler found (before), for the properties.
DeleteReport ==
    /\ CanStart
    /\ deleteJob.pc = "idle"
    /\ \E k \in 1..Len(AIRPORTS) :
          /\ tableData[k].hasData
          /\ \E report \in {tableData[k].report} :
                /\ reports' = WithoutId(reports, report.id)
                /\ saveTimer' = Armed(isDbLoaded)
                /\ IF ~electronAPI
                   THEN \E ok \in Oks :
                           /\ Charge(ok)
                           /\ v2' = deleteReportFromDB(v2, report.id, ok).v2
                           /\ deleteJob' = [pc |-> "await", ok |-> ok, before |-> reports]
                           /\ UNCHANGED uploadStatus
                   ELSE /\ uploadStatus' = [msg |-> "deleted", n |-> 0]
                        /\ UNCHANGED <<v2, deleteJob, faults>>
    /\ ops' = ops + 1
    /\ UNCHANGED <<envVars, now, legacy, localAdmin, fsFile, isDbLoaded, alertMsg,
                   targetAirportForUpload, initJob, folderJob, singleJob, resetJob,
                   merged, restarts, otherVars>>

\* handleDeleteReport after await deleteReportFromDB(report.id); a rejection
\* leaves the handler through an unhandled exception
DeleteDone ==
    /\ deleteJob.pc = "await"
    /\ uploadStatus' = IF deleteJob.ok THEN [msg |-> "deleted", n |-> 0]
                       ELSE uploadStatus
    /\ deleteJob' = IdleJob
    /\ UNCHANGED <<envVars, now, storeVars, reports, isDbLoaded, alertMsg,
                   targetAirportForUpload, saveTimer, initJob, folderJob, singleJob,
                   resetJob, histVars, otherVars>>

\* App: handleReset (confirmed), to await clearAllDB (web) or to its end
\* (Electron: the reports file is unlinked, a failure is caught and logged)
Reset ==
    /\ CanStart
    /\ resetJob.pc = "idle"
    /\ reports' = <<>>
    /\ saveTimer' = Armed(isDbLoaded)
    /\ IF ~electronAPI
       THEN \E ok \in Oks :
            \E failAt \in IF ok THEN {0} ELSE ClearFailures :
            \E c \in {clearAllDB(v2, legacy, failAt)} :
               /\ Charge(ok)
               /\ v2' = c.v2
               /\ legacy' = c.legacy
               /\ resetJob' = [pc |-> "await", ok |-> ok, before |-> reports]
               /\ UNCHANGED <<fsFile, uploadStatus>>
       ELSE \E unlinked \in Oks :
               /\ Charge(unlinked)
               /\ fsFile' = IF unlinked THEN NoFile ELSE fsFile
               /\ uploadStatus' = [msg |-> "reset done", n |-> 0]
               /\ UNCHANGED <<v2, legacy, resetJob>>
    /\ ops' = ops + 1
    /\ UNCHANGED <<envVars, now, localAdmin, isDbLoaded, alertMsg,
                   targetAirportForUpload, initJob, folderJob, singleJob, deleteJob,
                   merged, restarts, otherVars>>

\* handleReset after await clearAllDB(): localStorage.removeItem and the
\* status line; a rejection leaves the handler through an unhandled exception
ResetDone ==
    /\ resetJob.pc = "await"
    /\ IF resetJob.ok
       THEN /\ localAdmin' = FALSE
            /\ uploadStatus' = [msg |-> "reset done", n |-> 0]
       ELSE UNCHANGED <<localAdmin, uploadStatus>>
    /\ resetJob' = IdleJob
    /\ UNCHANGED <<envVars, now, v2, legacy, fsFile, reports, isDbLoaded, alertMsg,
                   targetAirportForUpload, saveTimer, initJob, folderJob, singleJob,
                   deleteJob, histVars, otherVars>>

\* App: the save effect's timer fires (Electron): the in-memory list is
\* written to the reports file; a failure is caught and logged
SaveTimerFires ==
    /\ saveTimer
    /\ \E written \in Oks :
          /\ Charge(written)
          /\ fsFile' = IF written
                       THEN [exists |-> TRUE, valid |-> TRUE,
                             data |-> MapSeq(JsonReport, reports)]
                       ELSE fsFile
    /\ saveTimer' = FALSE
    /\ UNCHANGED <<envVars, now, v2, legacy, localAdmin, reports, isDbLoaded,
                   uploadStatus, alertMsg, targetAirportForUpload, jobVars, merged,
                   ops, restarts, otherVars>>

\* The page is reloaded (the app is restarted): the component is constructed
\* anew, whatever was awaited is dropped, the stores and the file persist.
Restart ==
    /\ restarts < MaxRestarts
    /\ ops < MaxOps
    /\ initJob.pc = "done"
    /\ restarts' = restarts + 1
    /\ ops' = ops + 1
    /\ merged' = [n |-> 0, batch |-> <<>>]
    /\ reports' = <<>>
    /\ isDbLoaded' = FALSE
    /\ uploadStatus' = NoStatus
    /\ alertMsg' = ""
    /\ targetAirportForUpload' = NoTarget
    /\ saveTimer' = FALSE
    /\ initJob' = [pc |-> "start"]
    /\ folderJob' = IdleJob
    /\ singleJob' = IdleJob
    /\ deleteJob' = IdleJob
    /\ resetJob' = IdleJob
    /\ UNCHANGED <<envVars, now, storeVars, faults, otherVars>>

Next ==
    \/ InitEffect
    \/ InitLoaded
    \/ FolderChange
    \/ FolderText
    \/ FolderSaved
    \/ SingleFileUploadRequest
    \/ SingleFileChange
    \/ SingleText
    \/ SingleSaved
    \/ DeleteReport
    \/ DeleteDone
    \/ Reset
    \/ ResetDone
    \/ SaveTimerFires
    \/ Restart

Spec == Init /\ [][Next]_vars

-----------------------------------------------------------------------------
(* SpecStrip: the summary projection applied to every bounded report *)

InitStrip ==
    /\ AppDormant
    /\ input \in ReportInputs
    /\ output = None
    /\ pc = "call"
    /\ v2 = EmptyStore /\ legacy = NoLegacy /\ now = Now0
    /\ live = {} /\ calls = 0

\* db: loadReportsMetadata pushes stripPhotos(fullReport)
ApplyStripPhotos ==
    /\ pc = "call"
    /\ output' = stripPhotos(input)
    /\ pc' = "done"
    /\ UNCHANGED <<input, live, calls, now, v2, legacy, appVars>>

\* App: handleFolderChange / handleSingleFileChange build the summary inline
ApplySummary ==
    /\ pc = "call"
    /\ output' = SummaryOf(input, input.items)
    /\ pc' = "done"
    /\ UNCHANGED <<input, live, calls, now, v2, legacy, appVars>>

NextStrip == ApplyStripPhotos \/ ApplySummary

SpecStrip == InitStrip /\ [][NextStrip]_vars

\* C6: the summary of a report has the same items in the same order, every
\* item with photos = [] and no legacy photo value, and every other field of
\* the report and of each item as in the report.
C6_SummaryProjection ==
    pc = "done" =>
        /\ DOMAIN output = DOMAIN input
        /\ \A k \in (DOMAIN input) \ {"items"} : output[k] = input[k]
        /\ Len(output.items) = Len(input.items)
        /\ \A i \in 1..Len(input.items) :
              LET a == input.items[i]
                  b == output.items[i]
              IN  /\ b.photos = <<>>
                  /\ Has(b, "photo") /\ b.photo = Undefined
                  /\ (DOMAIN b) \ {"photos", "photo"} = (DOMAIN a) \ {"photos", "photo"}
                  /\ \A k \in (DOMAIN a) \ {"photos", "photo"} : b[k] = a[k]

\* A report with two items, photos, a legacy photo, an opinion, categoryDates
\* and an extra field has been projected.
C6_Witness ==
    /\ pc = "done"
    /\ Len(input.items) = 2
    /\ Has(input.items[1], "photos") /\ Len(input.items[1].photos) = 2
    /\ Has(input.items[2], "photo")
    /\ Has(input.items[2], "opinion")
    /\ input.items[1].status # input.items[2].status
    /\ Has(input, "categoryDates") /\ Has(input, "memo")

-----------------------------------------------------------------------------
(* SpecStats: the tally applied to every bounded item sequence *)

InitStats ==
    /\ AppDormant
    /\ input \in StatusInputs
    /\ output = None
    /\ pc = "call"
    /\ v2 = EmptyStore /\ legacy = NoLegacy /\ now = Now0
    /\ live = {} /\ calls = 0

ApplyCalculateRowStats ==
    /\ pc = "call"
    /\ output' = calculateRowStats(input)
    /\ pc' = "done"
    /\ UNCHANGED <<input, live, calls, now, v2, legacy, appVars>>

NextStats == ApplyCalculateRowStats

SpecStats == InitStats /\ [][NextStats]_vars

NumWithStatus(items, s) == Cardinality({i \in 1..Len(items) : items[i].status = s})

\* C7: each bucket is the number of items carrying that status, total is the
\* sum of the five buckets, an item of unrecognized status is counted nowhere;
\* [good, good, minor, critical] gives 2, 1, 0, 1, 0, total 4.
C7_Tally ==
    pc = "done" =>
        /\ \A s \in InspectionStatus : output[s] = NumWithStatus(input, s)
        /\ output.total = output.good + output.minor + output.poor
                            + output.critical + output.na
        /\ output.total =
              Cardinality({i \in 1..Len(input) : input[i].status \in InspectionStatus})
        /\ ([i \in 1..Len(input) |-> input[i].status]
                = <<"good", "good", "minor", "critical">>
              => output = [good |-> 2, minor |-> 1, poor |-> 0, critical |-> 1,
                           na |-> 0, total |-> 4])

\* The tally of a sequence holding an unrecognized status next to known ones.
C7_Witness ==
    /\ pc = "done"
    /\ Len(input) = MaxStatusItems
    /\ \E i \in 1..Len(input) : input[i].status = "unknown"
    /\ output.total > 0
    /\ output.total < Len(input)

-----------------------------------------------------------------------------
(* SpecTable: the dashboard rows of every bounded in-memory list, for the    *)
(* months around the one the app was opened in and every timezone            *)

\* The instants around the start and the end of the month the app is opened in
TableDates == {toISOString(ViewStartUtc + k) : k \in (0 - 1)..TicksPerMonth}

TableViews == {toISOString(ViewStartUtc + k * TicksPerMonth) : k \in (0 - 1)..1}

TableReportInputs ==
    {[id |-> DateNowId(1), airport |-> a, date |-> d, inspector |-> "kim",
      items |-> its] :
        a \in UploadAirports, d \in TableDates,
        its \in {<<>>,
                 <<StripItem([category |-> "facility", label |-> "runway",
                              status |-> "good"]),
                   StripItem([category |-> "facility", label |-> "apron",
                              status |-> "critical"])>>}}

InitTable ==
    /\ tz \in TimeZones
    /\ \E view \in TableViews : selectedYear = view.y /\ selectedMonth = view.m
    /\ reports \in SeqsUpTo(TableReportInputs, MaxReports)
    /\ electronAPI = FALSE
    /\ localAdmin = FALSE
    /\ fsFile = NoFile
    /\ isDbLoaded = TRUE
    /\ uploadStatus = NoStatus
    /\ alertMsg = ""
    /\ targetAirportForUpload = NoTarget
    /\ saveTimer = FALSE
    /\ ExportIdle
    /\ initJob = [pc |-> "done"]
    /\ folderJob = IdleJob
    /\ singleJob = IdleJob
    /\ deleteJob = IdleJob
    /\ resetJob = IdleJob
    /\ merged = [n |-> 0, batch |-> <<>>]
    /\ ops = 0
    /\ restarts = 0
    /\ faults = 0
    /\ input = None
    /\ output = None
    /\ pc = "call"
    /\ v2 = EmptyStore /\ legacy = NoLegacy /\ now = Now0
    /\ live = {} /\ calls = 0

ApplyTableData ==
    /\ pc = "call"
    /\ output' = tableData
    /\ pc' = "done"
    /\ UNCHANGED <<input, live, calls, now, v2, legacy, appVars>>

NextTable == ApplyTableData

SpecTable == InitTable /\ [][NextTable]_vars

\* The report's date lies in the queried year and month.
DatedIn(r, year, month) == r.date.y = year /\ r.date.m = month

\* C8: tableData has one row per airport of AIRPORTS, in list order; a row
\* carries a report and its tally only if the report is of the row's airport
\* and is dated in the queried year and month; a row for which the list holds
\* no such report is a no-data row without a tally.
C8_RowLookup ==
    pc = "done" =>
        /\ Len(output) = Len(AIRPORTS)
        /\ \A k \in 1..Len(AIRPORTS) :
              /\ output[k].airport = AIRPORTS[k]
              /\ output[k].hasData =>
                    /\ \E i \in 1..Len(reports) : output[k].report = reports[i]
                    /\ output[k].report.airport = AIRPORTS[k]
                    /\ DatedIn(output[k].report, selectedYear, selectedMonth)
                    /\ \A st \in InspectionStatus :
                          output[k].stats[st]
                             = NumWithStatus(output[k].report.items, st)
              /\ ~output[k].hasData =>
                    /\ DOMAIN output[k] = {"airport", "hasData"}
                    /\ \A i \in 1..Len(reports) :
                          ~(/\ reports[i].airport = AIRPORTS[k]
                            /\ DatedIn(reports[i], selectedYear, selectedMonth))

-----------------------------------------------------------------------------
(* SpecDB: the exported db functions called in any order on any bounded      *)
(* content of the two stores                                                 *)

\* Ids assigned before the page was opened
OldIds == {DateNowId(t) : t \in 1..2}

FullItemInputs ==
    {[category |-> "facility", label |-> "runway", status |-> "good",
      photos |-> <<"img1">>],
     [category |-> "facility", label |-> "apron", status |-> "poor",
      photo |-> "img0"]}

DbReportInputs ==
    {[id |-> i, airport |-> "Incheon", date |-> DateStr(2024, 3, 0),
      inspector |-> "kim", items |-> <<it>>] :
        i \in OldIds, it \in FullItemInputs}

\* One blob of a single report, for the specifications that do not migrate
SmallLegacyInputs ==
    {NoLegacy,
     [has |-> TRUE,
      val |-> <<[airport |-> "Gimpo", date |-> DateStr(2024, 3, 0),
                 inspector |-> "kim", items |-> <<>>]>>]}

\* Reports of the legacy blob: with an id, with id 0, or without one
LegacyReportInputs ==
    {Spread([airport |-> a, date |-> DateStr(2024, 3, 0), inspector |-> "kim",
             items |-> <<[category |-> "facility", label |-> "apron",
                          status |-> "poor", photo |-> "img0"]>>], i) :
        a \in {"Incheon", "Gimpo"},
        i \in {EmptyObj, [id |-> DateNowId(1)]}} \cup
    {[id |-> 0, airport |-> "Jeju", date |-> DateStr(2024, 3, 0),
      inspector |-> "kim", items |-> <<>>]}

LegacyInputs ==
    {NoLegacy} \cup
    {[has |-> TRUE, val |-> d] : d \in SeqsUpTo(LegacyReportInputs, MaxLegacy)}

StoreInputs ==
    {EmptyStore} \cup {Put(EmptyStore, r) : r \in DbReportInputs}

IdsOf(written) == {written[i].id : i \in 1..Len(written)}

InitDB ==
    /\ AppDormant
    /\ v2 \in StoreInputs
    /\ legacy \in SmallLegacyInputs
    /\ now = Now0
    /\ live = DOMAIN v2
    /\ calls = 0
    /\ input = None
    /\ output = NoCall
    /\ pc = "db"

CallSave ==
    /\ calls < MaxCalls
    /\ \E r \in DbReportInputs, ok \in BOOLEAN :
          \E c \in {saveReportToDB(v2, r, ok)} :
              /\ v2' = c.v2
              /\ live' = IF ok THEN live \cup {r.id} ELSE live
              /\ output' = [op |-> "save", id |-> r.id, report |-> r,
                            status |-> c.status, fault |-> ~ok]
    /\ calls' = calls + 1
    /\ UNCHANGED <<legacy, now, input, pc, appVars>>

CallDelete ==
    /\ calls < MaxCalls
    /\ \E i \in OldIds \cup {DateNowId(3)}, ok \in BOOLEAN :
          \E c \in {deleteReportFromDB(v2, i, ok)} :
              /\ v2' = c.v2
              /\ live' = IF ok THEN live \ {i} ELSE live
              /\ output' = [op |-> "delete", id |-> i, status |-> c.status,
                            fault |-> ~ok]
    /\ calls' = calls + 1
    /\ UNCHANGED <<legacy, now, input, pc, appVars>>

CallLoad ==
    /\ calls < MaxCalls
    /\ \E i \in OldIds \cup {DateNowId(3)}, ok \in BOOLEAN :
          \E c \in {loadReportFull(v2, i, ok)} :
              output' = [op |-> "load", id |-> i, status |-> c.status,
                         result |-> c.result, fault |-> ~ok]
    /\ calls' = calls + 1
    /\ UNCHANGED <<v2, legacy, now, live, input, pc, appVars>>

CallClear ==
    /\ calls < MaxCalls
    /\ \E failAt \in {0} \cup ClearFailures :
          \E c \in {clearAllDB(v2, legacy, failAt)} :
              /\ v2' = c.v2
              /\ legacy' = c.legacy
              /\ live' = IF failAt = 0 THEN {} ELSE live
              /\ output' = [op |-> "clear", id |-> 0, status |-> c.status,
                            fault |-> failAt # 0, failAt |-> failAt]
    /\ calls' = calls + 1
    /\ UNCHANGED <<now, input, pc, appVars>>

CallLoadReportsMetadata ==
    /\ calls < MaxCalls
    /\ \E outcome \in {"commit", "geterror", "abort"}, ok \in BOOLEAN :
       \E ent \in IF outcome = "commit" THEN Entropy(Len(legacy.val))
                  ELSE NoEntropy(Len(legacy.val)) :
          \E c \in {loadReportsMetadata(v2, legacy, now, ent, outcome, ok)} :
              /\ v2' = c.v2
              /\ legacy' = c.legacy
              /\ now' = c.now
              /\ live' = live \cup IdsOf(c.written)
              /\ output' = [op |-> "loadReportsMetadata", id |-> 0,
                            status |-> c.status, outcome |-> outcome,
                            written |-> c.written,
                            result |-> c.result, fault |-> ~ok]
    /\ calls' = calls + 1
    /\ UNCHANGED <<input, pc, appVars>>

NextDB ==
    \/ CallSave
    \/ CallDelete
    \/ CallLoad
    \/ CallClear

SpecDB == InitDB /\ [][NextDB]_vars

(* SpecMig: loadReportsMetadata, and with it migrateLegacyData, run         *)
(* repeatedly on any bounded content of the two stores                       *)

InitMig ==
    /\ AppDormant
    /\ v2 \in StoreInputs
    /\ legacy \in LegacyInputs
    /\ now = Now0
    /\ live = DOMAIN v2
    /\ calls = 0
    /\ input = None
    /\ output = NoCall
    /\ pc = "db"

NextMig == CallLoadReportsMetadata

SpecMig == InitMig /\ [][NextMig]_vars

C3_AbsentIds ==
    [][/\ (output'.op = "load" /\ output'.id \notin live /\ ~output'.fault)
            => (output'.status = "resolved" /\ output'.result = Undefined)
       /\ (output'.op = "delete" /\ output'.id \notin live /\ ~output'.fault)
            => (output'.status = "resolved" /\ v2' = v2)
       /\ (output'.op = "delete" /\ ~output'.fault)
            => \A i \in (DOMAIN v2) \ {output'.id} :
                  i \in DOMAIN v2' /\ v2'[i] = v2[i]]_vars

\* An id was deleted and then loaded: the load found nothing.
C3_Witness ==
    /\ output.op = "load" /\ output.status = "resolved"
    /\ output.id \in OldIds
    /\ output.id \notin DOMAIN v2
    /\ output.result = Undefined
    /\ v2 # EmptyStore
    /\ calls >= 2


Migrated(call) == call.op = "loadReportsMetadata" /\ call.outcome = "commit"

\* Positions of the legacy blob whose report has no id
IdLess(oldData) == {i \in 1..Len(oldData) : ~TruthyId(oldData[i])}

\* C4: a migration that commits leaves the legacy store without reports, and
\* a migration run directly after it leaves the Record Store as the first
\* run left it.
C4_MigrationIdempotent ==
    [][Migrated(output')
          => /\ LegacyEmpty(legacy')
             /\ (Migrated(output) => v2' = v2)]_vars

\* A blob with reports lacking an id was migrated, and migration ran again.
C4_Witness ==
    /\ calls = 2
    /\ Migrated(output)
    /\ output.written = <<>>
    /\ \E i \in DOMAIN v2 : i >= DateNowId(Now0)
    /\ Cardinality(DOMAIN v2) >= 2

\* C5: every report of the legacy blob that lacks an id is given an id that
\* no other report of the batch has, and after the migration the Record Store
\* holds a separate record for each of them.
C5_NoCollapse ==
    [][Migrated(output')
          => \A i \in IdLess(legacy.val) :
                /\ \A j \in (1..Len(legacy.val)) \ {i} :
                      output'.written[j].id # output'.written[i].id
                /\ Get(v2', output'.written[i].id) = output'.written[i]]_vars

-----------------------------------------------------------------------------
(* Claims about the App component (Spec) *)

\* No two reports of the list are of the same airport and the same local
\* year and month.
OnePerSlot(list) ==
    \A i, j \in 1..Len(list) : i # j => ~SameSlot(list[i], list[j])

\* C1: when an upload (bulk or single) is merged into a list that holds at
\* most one report per (airport, year, month) slot, the list holds at most one
\* report per slot afterwards, and for every slot of the upload it holds the
\* last report uploaded for that slot.
C1_LastWriteWins ==
    [][(merged'.n # merged.n /\ restarts' = restarts /\ OnePerSlot(reports))
          => /\ OnePerSlot(reports')
             /\ \A i \in 1..Len(merged'.batch) :
                   (\A j \in (i + 1)..Len(merged'.batch) :
                       ~SameSlot(merged'.batch[i], merged'.batch[j]))
                     => \E k \in 1..Len(reports') : reports'[k] = merged'.batch[i]]_vars

\* The file of the single upload in flight names an airport other than the
\* upload's target.
Mismatched(job) ==
    /\ job.pc = "text"
    /\ job.file.parses
    /\ (Has(job.file.json, "airport") => job.file.json.airport # job.target)

\* C9: every step of a single upload whose file's airport differs from the
\* target leaves reports_v2, the legacy store and the in-memory list as they
\* were, and the upload ends at the airport check.
C9_MismatchChangesNothing ==
    [][(singleJob' # singleJob /\ restarts' = restarts
          /\ (Mismatched(singleJob) \/ Mismatched(singleJob')))
          => /\ v2' = v2
             /\ legacy' = legacy
             /\ reports' = reports
             /\ (Mismatched(singleJob) => singleJob' = IdleJob)]_vars

\* A mismatching single upload has been rejected while the store and the
\* list hold reports.
C9_Witness ==
    /\ alertMsg = "airport does not match"
    /\ singleJob = IdleJob
    /\ reports # <<>>
    /\ v2 # EmptyStore

\* C10: when handleReset completes (web mode, clearAllDB resolved), the
\* in-memory list, reports_v2 and the legacy store are empty, and a startup
\* load lists no report.
C10_ResetClears ==
    [][(resetJob.pc = "await" /\ resetJob.ok /\ resetJob'.pc = "idle"
          /\ restarts' = restarts)
          => /\ reports' = <<>>
             /\ v2' = EmptyStore
             /\ LegacyEmpty(legacy')
             /\ loadReportsMetadata(v2', legacy', now', NoEntropy(Len(legacy'.val)),
                                    "commit", TRUE).result = <<>>]_vars

\* What the user sees tells of a failure: the alert of the single upload, or
\* the closing status of a bulk import none of whose files was loaded.
ToldOfFailure ==
    \/ alertMsg = "upload failed"
    \/ uploadStatus.msg = "no valid file"

\* C11: when saveReportToDB has failed and the importing handler (bulk or
\* single) ends, the user has been told of a failure; the handler does not
\* issue the write again.
C11_WriteFailureSurfaced ==
    [][/\ (folderJob.pc = "save" /\ ~folderJob.ok /\ folderJob'.pc = "idle"
             /\ restarts' = restarts)
            => (ToldOfFailure' /\ v2' = v2)
       /\ (singleJob.pc = "save" /\ ~singleJob.ok /\ singleJob'.pc = "idle"
             /\ restarts' = restarts)
            => (ToldOfFailure' /\ v2' = v2)]_vars

-----------------------------------------------------------------------------
(* Full detail *)

\* App: fetchFullReport.  In Electron the summary itself is handed on; in web
\* mode the record of the summary's id is loaded, the summary stands in when
\* there is none, and a failed load gives null (after an alert).
fetchFullReport(store, reportSummary, ok) ==
    IF electronAPI THEN reportSummary
    ELSE IF ~ok THEN Null
    ELSE IF reportSummary.id \in DOMAIN store
         THEN loadReportFull(store, reportSummary.id, ok).result
         ELSE reportSummary

HasPhotos(report) ==
    \E i \in 1..Len(report.items) : report.items[i].photos # <<>>

\* The full report of the upload whose summary is merged last by the step, in
\* each of the four ways a merge comes about; Null when the step is no merge
\* of a report just built.
LastUploadedFull ==
    IF folderJob.pc = "save" /\ folderJob.ok THEN folderJob.full
    ELSE IF singleJob.pc = "save" /\ singleJob.ok /\ singleJob'.pc = "idle"
    THEN singleJob.full
    ELSE IF /\ electronAPI /\ folderJob.pc = "text" /\ folderJob'.pc = "idle"
            /\ Head(folderJob.files).parses
            /\ ValidImport(Head(folderJob.files).json)
    THEN FolderFullReport(Head(folderJob.files).json,
                          merged'.batch[Len(merged'.batch)].id)
    ELSE IF /\ electronAPI /\ singleJob.pc = "text" /\ singleJob'.pc = "idle"
            /\ singleJob.file.parses
            /\ ~AirportMismatch(singleJob.file.json, singleJob.target)
    THEN SingleFullReport(singleJob.file.json, singleJob.target,
                          merged'.batch[Len(merged'.batch)].id)
    ELSE Null

\* C12: when the summary of a report imported with photos is put into the
\* in-memory list, what fetchFullReport hands to the detail view, print and
\* PDF export for it is the full record with its photos, in web mode and in
\* Electron mode.
C12_FullDetail ==
    [][(/\ merged'.n # merged.n
        /\ restarts' = restarts
        /\ LastUploadedFull # Null
        /\ HasPhotos(LastUploadedFull))
          => \A k \in 1..Len(reports') :
                reports'[k].id = LastUploadedFull.id
                  => fetchFullReport(v2', reports'[k], TRUE) = LastUploadedFull]_vars

-----------------------------------------------------------------------------
(* Claims about the db functions, continued (SpecDB, SpecMig) *)

\* C13: every clearAllDB either resolves with reports_v2 and the legacy store
\* both empty, or rejects with both stores as they were before the call; it
\* never leaves one store cleared and the other not.
C13_ClearAtomic ==
    [][output'.op = "clear"
          => \/ /\ output'.status = "resolved"
                /\ v2' = EmptyStore
                /\ legacy' = NoLegacy
             \/ /\ output'.status = "rejected"
                /\ v2' = v2
                /\ legacy' = legacy]_vars

\* The second clear() of a clearAllDB has failed while both stores held
\* data, and both still hold it.
C13_Witness ==
    /\ output.op = "clear"
    /\ output.failAt = 2
    /\ v2 # EmptyStore
    /\ legacy.has /\ legacy.val # <<>>

-----------------------------------------------------------------------------
(* Claims about the App component, continued (Spec) *)

\* The file does not parse, or lacks airport, date or items.
BadFile(f) ==
    \/ ~f.parses
    \/ \E k \in {"airport", "date", "items"} : ~Has(f.json, k)

\* Every summary of the batch that no later one of the batch displaces is in
\* the list.
MergedInto(batch, list) ==
    \A i \in 1..Len(batch) :
        (\A j \in (i + 1)..Len(batch) : ~SameSlot(batch[i], batch[j]))
          => \E k \in 1..Len(list) : list[k] = batch[i]

\* C14: in a bulk import, the turn of a bad file writes nothing to
\* reports_v2 and adds no summary, and the batch goes on with the next file;
\* the turn of a valid file whose write succeeds puts its full record into
\* reports_v2 and its summary into the batch; when the last file is done,
\* the summaries of all valid files are merged into the in-memory list.
C14_BadFilesSkipped ==
    [][(folderJob' # folderJob /\ restarts' = restarts)
          => /\ (folderJob.pc = "text" /\ BadFile(Head(folderJob.files)))
                  => /\ v2' = v2
                     /\ IF Tail(folderJob.files) # <<>>
                        THEN /\ folderJob'.pc = "text"
                             /\ folderJob'.files = Tail(folderJob.files)
                             /\ folderJob'.newSummaries = folderJob.newSummaries
                             /\ reports' = reports
                        ELSE /\ folderJob'.pc = "idle"
                             /\ IF folderJob.newSummaries = <<>>
                                THEN reports' = reports
                                ELSE /\ merged'.batch = folderJob.newSummaries
                                     /\ MergedInto(merged'.batch, reports')
             /\ (folderJob.pc = "text" /\ ~BadFile(Head(folderJob.files))
                   /\ ~electronAPI)
                  => /\ folderJob'.pc = "save"
                     /\ folderJob'.files = folderJob.files
                     /\ folderJob'.ok
                          => /\ folderJob'.full.id \in DOMAIN v2'
                             /\ v2'[folderJob'.full.id] = folderJob'.full
                             /\ folderJob'.full.items
                                  = NormalizedItems(Head(folderJob.files).json)
             /\ (folderJob.pc = "save" /\ folderJob.ok)
                  => LET batch == IF folderJob'.pc = "idle" THEN merged'.batch
                                  ELSE folderJob'.newSummaries
                     IN  /\ Len(batch) = Len(folderJob.newSummaries) + 1
                         /\ \A i \in 1..Len(folderJob.newSummaries) :
                               batch[i] = folderJob.newSummaries[i]
                         /\ batch[Len(batch)].id = folderJob.full.id
                         /\ batch[Len(batch)].airport = folderJob.full.airport
                         /\ folderJob'.pc = "idle"
                              => MergedInto(merged'.batch, reports')]_vars

\* A bulk import of a file without items, a valid file and a file that is no
\* JSON has ended: the one valid report is in the list (and, in web mode, in
\* reports_v2).
C14_Witness ==
    /\ folderJob = IdleJob
    /\ faults = 0
    /\ uploadStatus = [msg |-> "loaded", n |-> 1]
    /\ Len(merged.batch) = 1
    /\ \E k \in 1..Len(reports) : reports[k] = merged.batch[1]
    /\ electronAPI \/ merged.batch[1].id \in DOMAIN v2

-----------------------------------------------------------------------------
(* SpecDate: the date column of the dashboard, for every bounded report and  *)
(* every timezone                                                            *)

\* Date.prototype.getDate: the day of the local month, counted in ticks from
\* the month's first instant as the d of a date string is
getDate(t) == (t + tz) % TicksPerMonth

SetMin(S) == CHOOSE x \in S : \A y \in S : x <= y

SetMax(S) == CHOOSE x \in S : \A y \in S : x >= y

\* The text '-'
Dash == <<>>

\* DashboardTable: formatInspectionDate.  The text yy.mm.dd is the sequence
\* <<yy, mm, dd>>, yy.mm.dd~DD is <<yy, mm, dd, DD>> and yy.mm.dd~MM.DD is
\* <<yy, mm, dd, MM, DD>>.
formatInspectionDate(report) ==
    IF ~Has(report, "date") THEN Dash
    ELSE LET dates == {ParseDate(report.date)}
                        \cup (IF Has(report, "categoryDates")
                              THEN {ParseDate(report.categoryDates[c]) :
                                       c \in DOMAIN report.categoryDates}
                              ELSE {})
             minTime == SetMin(dates)
             maxTime == SetMax(dates)
             yy == getFullYear(minTime) % 100
             mm == getMonth(minTime) + 1
             dd == getDate(minTime)
         IN  IF minTime = maxTime THEN <<yy, mm, dd>>
             ELSE IF /\ getMonth(minTime) = getMonth(maxTime)
                     /\ getFullYear(minTime) = getFullYear(maxTime)
             THEN <<yy, mm, dd, getDate(maxTime)>>
             ELSE <<yy, mm, dd, getMonth(maxTime) + 1, getDate(maxTime)>>

CategoryDateInputs ==
    {EmptyObj}
    \cup {[categoryDates |-> cd] :
             cd \in UNION {[cats -> TableDates] :
                              cats \in SUBSET {"facility", "deicing"}}}

DateReportInputs ==
    {Spread(Spread([id |-> DateNowId(1), airport |-> "Incheon", inspector |-> "kim",
                    items |-> <<>>], d), cd) :
        d \in {EmptyObj} \cup {[date |-> x] : x \in TableDates},
        cd \in CategoryDateInputs}

\* The App component at rest, with nothing stored and nothing in flight
AppAtRest ==
    /\ electronAPI = FALSE
    /\ selectedYear = ViewYear
    /\ selectedMonth = ViewMonth
    /\ localAdmin = FALSE
    /\ fsFile = NoFile
    /\ reports = <<>>
    /\ isDbLoaded = TRUE
    /\ uploadStatus = NoStatus
    /\ alertMsg = ""
    /\ targetAirportForUpload = NoTarget
    /\ saveTimer = FALSE
    /\ ExportIdle
    /\ initJob = [pc |-> "done"]
    /\ folderJob = IdleJob
    /\ singleJob = IdleJob
    /\ deleteJob = IdleJob
    /\ resetJob = IdleJob
    /\ merged = [n |-> 0, batch |-> <<>>]
    /\ ops = 0
    /\ restarts = 0
    /\ faults = 0
    /\ v2 = EmptyStore /\ legacy = NoLegacy /\ now = Now0
    /\ live = {} /\ calls = 0

InitDate ==
    /\ AppAtRest
    /\ tz \in TimeZones
    /\ input \in DateReportInputs
    /\ output = None
    /\ pc = "call"

ApplyFormatInspectionDate ==
    /\ pc = "call"
    /\ output' = formatInspectionDate(input)
    /\ pc' = "done"
    /\ UNCHANGED <<input, live, calls, now, v2, legacy, appVars>>

NextDate == ApplyFormatInspectionDate

SpecDate == InitDate /\ [][NextDate]_vars

\* The date strings of the report: its date and all its categoryDates
DateStrings(report) ==
    {report.date}
    \cup (IF Has(report, "categoryDates")
          THEN {report.categoryDates[c] : c \in DOMAIN report.categoryDates}
          ELSE {})

\* C15: the date column shows the range from the earliest to the latest of
\* the report's date and categoryDates: yy.mm.dd when the two are equal,
\* yy.mm.dd~DD when they fall in the same month, yy.mm.dd~MM.DD otherwise,
\* each field being that of the date as written in the report.
C15_DateRange ==
    (pc = "done" /\ Has(input, "date")) =>
        LET lo == CHOOSE a \in DateStrings(input) :
                     \A b \in DateStrings(input) : ParseDate(a) <= ParseDate(b)
            hi == CHOOSE a \in DateStrings(input) :
                     \A b \in DateStrings(input) : ParseDate(a) >= ParseDate(b)
        IN  output = IF lo = hi THEN <<lo.y % 100, lo.m, lo.d>>
                     ELSE IF lo.y = hi.y /\ lo.m = hi.m
                     THEN <<lo.y % 100, lo.m, lo.d, hi.d>>
                     ELSE <<lo.y % 100, lo.m, lo.d, hi.m, hi.d>>

\* The record built from the file carries an id made from the clock at the
\* import, and every field of the file outside `known` unchanged.
FreshWithExtras(full, json, known) ==
    /\ full.id \in {DateNowPlusRandom(now', q) : q \in RandomFractions}
    /\ \A k \in (DOMAIN json) \ known : Has(full, k) /\ full[k] = json[k]

\* The summary carries the id and every field but items of the full record.
SummaryCarries(summary, full) ==
    \A k \in (DOMAIN full) \ {"items"} : Has(summary, k) /\ summary[k] = full[k]

\* C16: the record an import stores carries a freshly generated id, whatever
\* id the file holds, and every extra field of the file unchanged; the
\* summary put into the in-memory list carries the same id and fields.
C16_IdRegenerated ==
    [][restarts' = restarts
          => /\ (folderJob.pc = "text" /\ folderJob'.pc = "save" /\ folderJob'.ok)
                  => /\ FreshWithExtras(folderJob'.full, Head(folderJob.files).json,
                                        {"id", "items"})
                     /\ folderJob'.full.id \in DOMAIN v2'
                     /\ v2'[folderJob'.full.id] = folderJob'.full
             /\ (singleJob.pc = "text" /\ singleJob'.pc = "save" /\ singleJob'.ok)
                  => /\ FreshWithExtras(singleJob'.full, singleJob.file.json,
                                        {"id", "items", "airport", "date"})
                     /\ singleJob'.full.id \in DOMAIN v2'
                     /\ v2'[singleJob'.full.id] = singleJob'.full
             /\ (folderJob.pc = "save" /\ folderJob.ok /\ folderJob'.pc = "idle")
                  => SummaryCarries(merged'.batch[Len(merged'.batch)], folderJob.full)
             /\ (singleJob.pc = "save" /\ singleJob.ok /\ singleJob'.pc = "idle")
                  => /\ reports' # <<>>
                     /\ SummaryCarries(reports'[Len(reports')], singleJob.full)]_vars

\* A file that carries an id and an unknown field has been imported: the
\* store and the list hold it under another id, with the unknown field.
C16_Witness ==
    \E i \in DOMAIN v2 :
        /\ Has(v2[i], "memo")
        /\ i # ExtrasFile.json.id
        /\ \E k \in 1..Len(reports) : reports[k].id = i /\ Has(reports[k], "memo")

\* The list a startup load builds from the stores as they are now
RebuiltList ==
    loadReportsMetadata(v2, legacy, now, NoEntropy(Len(legacy.val)),
                        "commit", TRUE).result

\* The two lists give every airport's dashboard row the same report.
SameRows(listA, listB) ==
    \A k \in 1..Len(AIRPORTS) :
        LET i == FindRow(listA, AIRPORTS[k])
            j == FindRow(listB, AIRPORTS[k])
        IN  /\ (i = 0) <=> (j = 0)
            /\ i # 0 => listA[i] = listB[j]

\* C17: in web mode, when the page is reloaded after uploads have been merged
\* (nothing in flight, no storage failure, one report per slot in memory, the
\* last upload among them, each of them stored),
\* the list rebuilt from reports_v2 holds the same reports as the list held
\* before, and every dashboard row shows the same report as before.
C17_RestartKeepsLastWrite ==
    [][(/\ restarts' = restarts + 1
        /\ ~electronAPI
        /\ merged.n > 0
        /\ faults = 0
        /\ folderJob = IdleJob /\ singleJob = IdleJob
        /\ deleteJob = IdleJob /\ resetJob = IdleJob
        /\ OnePerSlot(reports)
        /\ MergedInto(merged.batch, reports)
        /\ \A k \in 1..Len(reports) : reports[k].id \in DOMAIN v2)
          => /\ {RebuiltList[k] : k \in 1..Len(RebuiltList)}
                  = {reports[k] : k \in 1..Len(reports)}
             /\ SameRows(RebuiltList, reports)]_vars

-----------------------------------------------------------------------------
(* Store and memory *)

\* The ids of the reports of a list
ReportIds(list) == {list[k].id : k \in 1..Len(list)}

\* A mutating handler (bulk import, single upload, delete, reset) ends with
\* this step.
MutationCompletes ==
    \/ folderJob.pc # "idle" /\ folderJob'.pc = "idle"
    \/ singleJob.pc = "save" /\ singleJob'.pc = "idle"
    \/ deleteJob.pc # "idle" /\ deleteJob'.pc = "idle"
    \/ resetJob.pc # "idle" /\ resetJob'.pc = "idle"

\* C18: in web mode, when a mutating handler completes while the startup load
\* is over, no other handler is in flight and no storage request has failed,
\* the ids of reports_v2 are the ids of the in-memory list.
C18_StoreAndMemoryInStep ==
    [][(/\ MutationCompletes
        /\ restarts' = restarts
        /\ ~electronAPI
        /\ initJob.pc = "done"
        /\ faults' = 0
        /\ folderJob' = IdleJob /\ singleJob' = IdleJob
        /\ deleteJob' = IdleJob /\ resetJob' = IdleJob)
          => DOMAIN v2' = ReportIds(reports')]_vars

-----------------------------------------------------------------------------
(* Several reports of one slot *)

\* The last report of the list that the row's lookup test accepts for the
\* airport, 0 if there is none
LastMatch(list, airport) ==
    LET hits == {i \in 1..Len(list) : MatchesView(list[i], airport)}
    IN  IF hits = {} THEN 0 ELSE CHOOSE i \in hits : \A j \in hits : i >= j

\* C19: when the list holds several reports that the lookup accepts for an
\* airport and the queried year and month, the airport's row shows the last
\* of them in list order.
C19_LastFoundWins ==
    pc = "done" =>
        \A k \in 1..Len(AIRPORTS) :
            LastMatch(reports, AIRPORTS[k]) # 0
              => /\ output[k].hasData
                 /\ output[k].report = reports[LastMatch(reports, AIRPORTS[k])]

-----------------------------------------------------------------------------
(* A migration whose write fails *)

\* The call made by this step was a migration of a legacy blob of several
\* reports in which a put failed.
PutFailedInMigration(call, leg) ==
    /\ call.op = "loadReportsMetadata"
    /\ call.outcome = "abort"
    /\ leg.has
    /\ Len(leg.val) >= 2

\* Every report of the blob that has an id is in reports_v2 under that id.
AllMigrated(store, leg) ==
    \A i \in 1..Len(leg.val) :
        TruthyId(leg.val[i]) => leg.val[i].id \in DOMAIN store

\* C20: when a put fails during the migration, the legacy blob is kept and
\* reports_v2 is as it was before the migration: no report of a failed
\* migration is written, and the blob is there for the next load to migrate.
C20_FailedMigrationKeepsBlob ==
    [][PutFailedInMigration(output', legacy)
          => /\ legacy' = legacy
             /\ v2' = v2
             /\ output'.written = <<>>]_vars

\* A migration of a blob of two reports has failed at a put.
C20_Witness ==
    /\ calls > 0
    /\ PutFailedInMigration(output, legacy)
    /\ ~LegacyEmpty(legacy)

\* C20 as stated: when a put fails during the migration, the legacy store is
\* empty afterwards although not every legacy report is in reports_v2.
C20_BlobDeletedAnyway ==
    [][PutFailedInMigration(output', legacy)
          => /\ LegacyEmpty(legacy')
             /\ ~AllMigrated(v2', legacy)]_vars

-----------------------------------------------------------------------------
(* A failed delete or reset *)

\* This step ends a handleDeleteReport or a handleReset whose store request
\* failed, no other handler being in flight.
FailedRemovalEnds(job, jobNext) ==
    /\ job.pc = "await"
    /\ ~job.ok
    /\ jobNext.pc = "idle"
    /\ restarts' = restarts
    /\ initJob.pc = "done"
    /\ folderJob = IdleJob /\ singleJob = IdleJob

\* C21: when deleteReportFromDB fails in handleDeleteReport, or clearAllDB
\* fails in handleReset, the handler ends with the in-memory list it found
\* when it began, and what the user sees (alert or status line) has changed
\* to tell of the failure.
C21_FailedRemovalRestores ==
    [][/\ (FailedRemovalEnds(deleteJob, deleteJob') /\ resetJob = IdleJob)
            => /\ reports' = deleteJob.before
               /\ (alertMsg' # alertMsg \/ uploadStatus' # uploadStatus)
       /\ (FailedRemovalEnds(resetJob, resetJob') /\ deleteJob = IdleJob)
            => /\ reports' = resetJob.before
               /\ (alertMsg' # alertMsg \/ uploadStatus' # uploadStatus)]_vars

-----------------------------------------------------------------------------
(* Overlapping handlers *)

\* The mutating handlers that are between their first step and their end
InFlight ==
    {j \in {"folder", "single", "delete", "reset"} :
        \/ j = "folder" /\ folderJob.pc # "idle"
        \/ j = "single" /\ singleJob.pc # "idle"
        \/ j = "delete" /\ deleteJob.pc # "idle"
        \/ j = "reset" /\ resetJob.pc # "idle"}

\* C22: in web mode a reset is never in flight together with a bulk import,
\* a single upload or a delete, and a bulk import that has met no storage
\* failure never merges the summary of a report that reports_v2 does not
\* hold when it merges.
C22_NoOverlap ==
    [][/\ (~electronAPI /\ "reset" \in InFlight') => InFlight' = {"reset"}
       /\ (~electronAPI /\ folderJob.pc # "idle" /\ folderJob'.pc = "idle"
             /\ merged'.n # merged.n /\ faults' = 0 /\ restarts' = restarts)
            => \A k \in 1..Len(merged'.batch) :
                  merged'.batch[k].id \in DOMAIN v2']_vars

-----------------------------------------------------------------------------
(* The bulk import's loop *)

\* The file is passed over: it does not parse or fails the validity test.
Skipped(f) == ~f.parses \/ ~ValidImport(f.json)

\* C23: a bulk import takes its files one by one in order.  It goes on to
\* file k+1 (or to the merge) only from the step after await
\* saveReportToDB of file k, or, without a store write, when file k is
\* skipped or the app runs in Electron; and while it runs, the full report
\* awaiting its write is the only report with photos it holds: it is built
\* from the file at the head, and no collected summary has photos.
C23_Sequential ==
    [][(folderJob.pc # "idle" /\ restarts' = restarts) =>
          /\ folderJob' # folderJob =>
                \/ /\ folderJob.pc = "text"
                   /\ ~electronAPI /\ ~Skipped(Head(folderJob.files))
                   /\ folderJob'.pc = "save"
                   /\ folderJob'.files = folderJob.files
                   /\ folderJob'.full.airport = Head(folderJob.files).json.airport
                \/ /\ folderJob.pc = "save" \/ electronAPI
                         \/ Skipped(Head(folderJob.files))
                   /\ \/ folderJob' = IdleJob /\ Len(folderJob.files) = 1
                      \/ /\ folderJob'.pc = "text"
                         /\ folderJob'.files = Tail(folderJob.files)
          /\ \A k \in 1..Len(folderJob.newSummaries) :
                ~HasPhotos(folderJob.newSummaries[k])]_vars

\* In web mode the import is about to read its third file, the second
\* having been written to reports_v2 and its summary collected.
C23_Witness ==
    /\ ~electronAPI
    /\ folderJob.pc = "text"
    /\ Len(folderJob.files) = 1
    /\ folderJob.processedCount = 1
    /\ folderJob.newSummaries[1].id \in DOMAIN v2
    /\ HasPhotos(v2[folderJob.newSummaries[1].id])

-----------------------------------------------------------------------------
(* The startup listing *)

\* C24: a loadReportsMetadata that resolves has run the migration first: its
\* listing holds exactly one entry for every record reports_v2 holds after
\* the migration, the stripped record, and so an entry for the id of every
\* record the migration of the same call wrote.
C24_StartupListing ==
    [][(output'.op = "loadReportsMetadata" /\ output'.status = "resolved"
          /\ calls' = calls + 1)
          => /\ Len(output'.result) = Cardinality(DOMAIN v2')
             /\ \A id \in DOMAIN v2' :
                   \E k \in 1..Len(output'.result) :
                       output'.result[k] = stripPhotos(v2'[id])
             /\ \A i \in 1..Len(output'.written) :
                   \E k \in 1..Len(output'.result) :
                       output'.result[k].id = output'.written[i].id]_vars

\* A load has migrated a blob of two reports into a reports_v2 that held a
\* report already, and has listed all three.
C24_Witness ==
    /\ output.op = "loadReportsMetadata"
    /\ output.status = "resolved"
    /\ output.outcome = "commit"
    /\ Len(output.written) = 2
    /\ Len(output.result) = 3

-----------------------------------------------------------------------------
(* Photos in memory *)

\* The item carries no photo payload: its photos are empty and it has no
\* legacy photo value.
NoPayload(item) ==
    /\ Has(item, "photos") /\ item.photos = <<>>
    /\ ~TruthyStr(item, "photo")

\* C25: in web mode and in Electron, no item of a report of the in-memory
\* list carries photo payload.
C25_ListWithoutPhotos ==
    \A k \in 1..Len(reports) :
        \A i \in 1..Len(reports[k].items) : NoPayload(reports[k].items[i])

-----------------------------------------------------------------------------
(* SpecNorm: the photo normalisation at the import and at the read          *)
(* boundaries, applied to every bounded report, full or stripped             *)

\* !filterStatus || item.status === filterStatus
PassesFilter(item, filterStatus) ==
    filterStatus = Undefined \/ item.status = filterStatus

\* PrintLayout: const items = report.items.map(...).filter(...)
PrintLayoutItems(report, filterStatus) ==
    LET Test(item) == PassesFilter(item, filterStatus)
    IN  FilterSeq(Test, MapSeq(NormalizeItem, report.items))

\* DetailModal: const items = useMemo(() => report.items.map(...).filter(...))
DetailModalItems(report, filterStatus) ==
    LET Test(item) == PassesFilter(item, filterStatus)
    IN  FilterSeq(Test, MapSeq(NormalizeItem, report.items))

FilterInputs == {Undefined, "good", "critical"}

NormInputs == ReportInputs \cup {stripPhotos(r) : r \in ReportInputs}

InitNorm ==
    /\ AppDormant
    /\ input \in NormInputs
    /\ output = None
    /\ pc = "call"
    /\ v2 = EmptyStore /\ legacy = NoLegacy /\ now = Now0
    /\ live = {} /\ calls = 0

\* handleFolderChange builds the full report of a file
ApplyFolderFullReport ==
    /\ pc = "call"
    /\ output' = [at |-> "bulk", filterStatus |-> Undefined,
                  items |-> FolderFullReport(input, DateNowId(now)).items]
    /\ pc' = "done"
    /\ UNCHANGED <<input, live, calls, now, v2, legacy, appVars>>

\* handleSingleFileChange builds the full report of a file
ApplySingleFullReport ==
    /\ pc = "call"
    /\ output' = [at |-> "single", filterStatus |-> Undefined,
                  items |-> SingleFullReport(input, input.airport,
                                             DateNowId(now)).items]
    /\ pc' = "done"
    /\ UNCHANGED <<input, live, calls, now, v2, legacy, appVars>>

\* PrintLayout renders a report
ApplyPrintLayout ==
    /\ pc = "call"
    /\ \E f \in FilterInputs :
          output' = [at |-> "print", filterStatus |-> f,
                     items |-> PrintLayoutItems(input, f)]
    /\ pc' = "done"
    /\ UNCHANGED <<input, live, calls, now, v2, legacy, appVars>>

\* DetailModal renders a report
ApplyDetailModal ==
    /\ pc = "call"
    /\ \E f \in FilterInputs :
          output' = [at |-> "detail", filterStatus |-> f,
                     items |-> DetailModalItems(input, f)]
    /\ pc' = "done"
    /\ UNCHANGED <<input, live, calls, now, v2, legacy, appVars>>

\* The items that one boundary has normalised reach a second one (an imported
\* report is opened in the detail view): they are normalised again.
ApplyNormalizeAgain ==
    /\ pc = "done"
    /\ output' = [at |-> output.at, filterStatus |-> output.filterStatus,
                  once |-> output.items,
                  items |-> MapSeq(NormalizeItem, output.items)]
    /\ pc' = "twice"
    /\ UNCHANGED <<input, live, calls, now, v2, legacy, appVars>>

NextNorm ==
    \/ ApplyFolderFullReport
    \/ ApplySingleFullReport
    \/ ApplyPrintLayout
    \/ ApplyDetailModal
    \/ ApplyNormalizeAgain

SpecNorm == InitNorm /\ [][NextNorm]_vars

\* What the normalisation is to make of an item: its photos kept, or its
\* legacy photo promoted, or no photos; every other property as it was.
Normalized(item, from) ==
    /\ DOMAIN item = DOMAIN from \cup {"photos"}
    /\ \A k \in DOMAIN from \ {"photos"} : item[k] = from[k]
    /\ item.photos = IF Has(from, "photos") THEN from.photos
                     ELSE IF TruthyStr(from, "photo") THEN <<from.photo>>
                     ELSE <<>>

\* The positions of the input's items that pass the filter, in order
Passing(items, filterStatus) ==
    KeysAsc({i \in 1..Len(items) : PassesFilter(items[i], filterStatus)})

\* C26: at the import (bulk and single) and at the print and detail
\* boundaries every item (every item that passes the status filter, at the
\* two read boundaries) comes out normalised: photos kept when the item has
\* them, the legacy photo promoted into a one-element sequence when it has
\* only that, an empty sequence when it has neither; normalising the result
\* again changes nothing.
C26_PhotoNormalization ==
    /\ pc = "done" =>
          LET from == Passing(input.items, output.filterStatus)
          IN  /\ Len(output.items) = Len(from)
              /\ \A k \in 1..Len(from) :
                    Normalized(output.items[k], input.items[from[k]])
    /\ pc = "twice" => output.items = output.once

\* A legacy photo has been promoted, next to an item that kept its photos,
\* and the result has been normalised a second time.
C26_Witness ==
    /\ pc = "twice"
    /\ Len(input.items) = 2
    /\ ~Has(input.items[1], "photos") /\ TruthyStr(input.items[1], "photo")
    /\ Has(input.items[2], "photos") /\ input.items[2].photos # <<>>
    /\ Len(output.items) = 2
    /\ output.items[1].photos = <<input.items[1].photo>>

-----------------------------------------------------------------------------
(* The reports file after a failed startup load *)

\* C27: in Electron, a reports file that exists but could not be read or
\* parsed at startup is left as it is as long as the user has invoked no
\* handler: the save effect does not write the empty in-memory list over it.
C27_FailedLoadKeepsFile ==
    [][(electronAPI /\ fsFile.exists /\ ~fsFile.valid
          /\ initJob.pc = "done" /\ ops = 0 /\ ops' = ops /\ reports = <<>>)
          => fsFile' = fsFile]_vars

-----------------------------------------------------------------------------
(* The single upload and the viewed slot *)

\* This step is the successful end of a single upload.
SingleUploadSucceeds ==
    /\ singleJob.pc \in {"text", "save"}
    /\ singleJob' = IdleJob
    /\ merged'.n = merged.n + 1
    /\ restarts' = restarts

\* C28: when a single upload for the target airport succeeds, the list holds
\* exactly one report that the view's lookup accepts for that airport, the
\* uploaded one; the airport's row shows it with its tally; and the reports
\* that the lookup does not accept for the airport are the same as before.
C28_LandsInViewedSlot ==
    [][SingleUploadSucceeds =>
         LET target == singleJob.target
             uploaded == merged'.batch[1]
             InSlot(r) == MatchesView(r, target)
         IN  /\ \E k \in 1..Len(reports') :
                    /\ reports'[k] = uploaded
                    /\ InSlot(reports'[k])
                    /\ \A j \in 1..Len(reports') : InSlot(reports'[j]) => j = k
             /\ \A k \in 1..Len(AIRPORTS) :
                    AIRPORTS[k] = target =>
                        /\ tableData'[k].hasData
                        /\ tableData'[k].report = uploaded
                        /\ tableData'[k].stats = calculateRowStats(uploaded.items)
             /\ FilterSeq(LAMBDA r : ~InSlot(r), reports')
                  = FilterSeq(LAMBDA r : ~InSlot(r), reports)]_vars

-----------------------------------------------------------------------------
(* SpecExport: the export job, requested from the dashboard buttons and from *)
(* the PDF buttons of the rows and of the detail view                        *)

MaxExports == 3        \* export requests per behaviour of SpecExport

\* What SpecExport leaves alone
exportRest == <<input, output, pc, live, calls, now, v2, legacy, envVars,
                localAdmin, fsFile, reports, isDbLoaded, uploadStatus,
                targetAirportForUpload, saveTimer, jobVars, histVars>>

InitExport ==
    /\ tz = 0
    /\ electronAPI \in BOOLEAN
    /\ selectedYear = ViewYear
    /\ selectedMonth = ViewMonth
    /\ localAdmin = FALSE
    /\ fsFile = NoFile
    /\ \E stored \in BOOLEAN :
          /\ reports = <<stripPhotos(OldReport)>>
          /\ v2 = IF stored /\ ~electronAPI THEN Put(EmptyStore, OldReport)
                  ELSE EmptyStore
    /\ isDbLoaded = TRUE
    /\ uploadStatus = NoStatus
    /\ alertMsg = ""
    /\ targetAirportForUpload = NoTarget
    /\ saveTimer = FALSE
    /\ ExportIdle
    /\ initJob = [pc |-> "done"]
    /\ folderJob = IdleJob
    /\ singleJob = IdleJob
    /\ deleteJob = IdleJob
    /\ resetJob = IdleJob
    /\ merged = [n |-> 0, batch |-> <<>>]
    /\ ops = 0
    /\ restarts = 0
    /\ faults = 0
    /\ legacy = NoLegacy /\ now = Now0
    /\ input = None /\ output = None /\ pc = "app"
    /\ live = {} /\ calls = 0

\* A setExportJob that starts processExport whether or not an export is
\* being generated.
SetExportJobUnguarded(job) ==
    /\ exportJob' = job
    /\ isGenerating' = TRUE
    /\ exportRun' = [pc |-> "timer", job |-> job]

\* setExportJob(job) with a job, and the export effect that the change of
\* exportJob runs: processExport goes on only if (... && !isGenerating), sets
\* isGenerating and waits for its one-second timer.  The container that
\* pdfContainerRef points to is rendered whenever exportJob is set.
SetExportJob(job) ==
    /\ exportJob' = job
    /\ IF ~isGenerating
       THEN /\ isGenerating' = TRUE
            /\ exportRun' = [pc |-> "timer", job |-> job]
       ELSE UNCHANGED <<isGenerating, exportRun>>

\* App: handleRequestExportDashboard; its buttons are disabled while
\* isGenerating
RequestExportDashboard ==
    /\ exports < MaxExports
    /\ ~isGenerating
    /\ \E format \in {"pdf", "html"} :
          SetExportJob([type |-> "DASHBOARD", format |-> format])
    /\ exports' = exports + 1
    /\ UNCHANGED <<pdfRequest, alertMsg, exportRest>>

\* App: handleRequestPdfReport, up to await fetchFullReport(report)
RequestPdfReport ==
    /\ exports < MaxExports
    /\ ~isGenerating
    /\ pdfRequest = IdleJob
    /\ \E k \in 1..Len(reports) :
          pdfRequest' = [pc |-> "await", report |-> reports[k]]
    /\ exports' = exports + 1
    /\ UNCHANGED <<exportJob, isGenerating, exportRun, alertMsg, exportRest>>

\* handleRequestPdfReport after await fetchFullReport(report)
PdfReportFetched ==
    /\ pdfRequest.pc = "await"
    /\ \E ok \in BOOLEAN :
       \E full \in {fetchFullReport(v2, pdfRequest.report, ok)} :
          IF full # Null
          THEN /\ SetExportJob([type |-> "REPORT", data |-> full, format |-> "pdf"])
               /\ UNCHANGED alertMsg
          ELSE /\ alertMsg' = "details failed"
               /\ UNCHANGED <<exportJob, isGenerating, exportRun>>
    /\ pdfRequest' = IdleJob
    /\ UNCHANGED <<exports, exportRest>>

\* A processExport without the finally block: when the rendering throws, the
\* alert is shown and nothing is reset.
ExportSettleNoFinally(ok) ==
    /\ alertMsg' = IF ok THEN alertMsg ELSE "export failed"
    /\ isGenerating' = IF ok THEN FALSE ELSE isGenerating
    /\ exportJob' = IF ok THEN Null ELSE exportJob
    /\ exportRun' = IdleJob

\* processExport: the end of the try block (ok) or the catch, then finally
ExportSettle(ok) ==
    /\ alertMsg' = IF ok THEN alertMsg ELSE "export failed"
    /\ isGenerating' = FALSE
    /\ exportJob' = Null
    /\ exportRun' = IdleJob

\* processExport after its timer: an HTML export is built and downloaded in
\* this turn; a PDF export awaits html2canvas (which may throw at once)
ExportTimerFires ==
    /\ exportRun.pc = "timer"
    /\ IF exportRun.job.format = "html"
       THEN \E ok \in BOOLEAN : ExportSettle(ok)
       ELSE \/ /\ exportRun' = [pc |-> "canvas", job |-> exportRun.job]
               /\ UNCHANGED <<exportJob, isGenerating, alertMsg>>
            \/ ExportSettle(FALSE)
    /\ UNCHANGED <<pdfRequest, exports, exportRest>>

\* processExport after await html2canvas(...): the PDF is built and saved, or
\* the promise was rejected or jsPDF throws
ExportCanvasSettled ==
    /\ exportRun.pc = "canvas"
    /\ \E ok \in BOOLEAN : ExportSettle(ok)
    /\ UNCHANGED <<pdfRequest, exports, exportRest>>

NextExport ==
    \/ RequestExportDashboard
    \/ RequestPdfReport
    \/ PdfReportFetched
    \/ ExportTimerFires
    \/ ExportCanvasSettled

SpecExport == InitExport /\ [][NextExport]_vars

\* The timer of processExport fires, and html2canvas settles.
SpecExportLive ==
    /\ InitExport
    /\ [][NextExport]_vars
    /\ WF_vars(ExportTimerFires)
    /\ WF_vars(ExportCanvasSettled)

\* C29: an export job starts processing only while none is being generated;
\* while one is processed isGenerating is set; the step that ends the
\* processing, by success or by a throw, leaves isGenerating false and
\* exportJob null; and every export job that has started processing ends.
C29_ExportLifecycle ==
    /\ [][/\ (exportRun'.pc = "timer" /\ exportRun.pc # "timer")
               => (~isGenerating /\ exportRun = IdleJob)
          /\ exportRun'.pc # "idle" => isGenerating'
          /\ (exportRun.pc # "idle" /\ exportRun'.pc = "idle")
               => (~isGenerating' /\ exportJob' = Null)]_vars
    /\ (exportRun.pc # "idle")
          ~> (exportRun.pc = "idle" /\ ~isGenerating /\ exportJob = Null)

\* Two exports have been requested and the one processed last has ended with
\* a throw: the alert is shown, nothing is being generated and no export job
\* is left.
C29_Witness ==
    /\ alertMsg = "export failed"
    /\ exportRun = IdleJob
    /\ ~isGenerating
    /\ exportJob = Null
    /\ exports = 2
    /\ pdfRequest = IdleJob

====
